---- MODULE Spec2Model ----
(***************************************************************************)
(* State-machine model of the bizledger accounting / inventory kernel:     *)
(* the chart of accounts (ledger/models.py Account), vouchers and voucher  *)
(* lines (Voucher, VoucherLine), the posting operation, the voucher views  *)
(* of ledger/views.py, the fix_pnl_voucher_accounts command and the        *)
(* inventory vouchers of inventory/views.py.                               *)
(*                                                                         *)
(* Money is counted in hundredths (Decimal with 2 places -> integer),      *)
(* quantities in thousandths.  A voucher number is str(count + 1); str is  *)
(* injective on naturals, so numbers are compared as the integers they     *)
(* print.  Rows of one voucher are kept as a bag: the primary keys of the  *)
(* rows are not read by any operation modelled here except .first(),       *)
(* which is modelled as a choice among the matching rows.                  *)
(***************************************************************************)
EXTENDS Integers, Sequences, FiniteSets, Bags, TLC

\* ---- bounds of the model ------------------------------------------------
MaxVouchers == 1
MaxLines == 3
MaxAmt == 2
MaxClock == 2
MaxProcs == 2
MaxStockVouchers == 2
MaxJournals == 1
MaxRows == 2
MaxQty == 2
MaxAccounts == 9
MaxEntries == 4

VARIABLES accounts, vouchers, lines, nextId, stock, now, last, procs

vars == <<accounts, vouchers, lines, nextId, stock, now, last, procs>>

\* ---- values ---------------------------------------------------------------
NoParent == 0
NoTime == 0
NoUser == "none"
NoBusiness == "none"
Businesses == {"acme", "zenith"}
Users == {"alice", "bob"}

RootTypes == {"ASSET", "LIABILITY", "INCOME", "EXPENSE"}
VoucherTypes == {"RECEIPT", "PAYMENT", "JOURNAL", "CONTRA", "SALES", "PURCHASE"}
STANDARD_ROOT_NAMES == {"Assets", "Liabilities", "Income", "Expenses"}

report_type_from_root(root_type) ==
    IF root_type \in {"INCOME", "EXPENSE"} THEN "PL" ELSE "BS"

\* name__icontains="purchase" / "sales" over the account names of the model
NameHasPurchase(name) == name \in {"Purchase"}
NameHasSales(name) == name \in {"Sales", "Sales Tax Payable"}

\* ---- bags of rows ---------------------------------------------------------
RECURSIVE SumDebit(_)
SumDebit(b) ==
    IF DOMAIN b = {} THEN 0
    ELSE LET e == CHOOSE x \in DOMAIN b : TRUE
         IN  b[e] * e.debit + SumDebit([x \in (DOMAIN b) \ {e} |-> b[x]])

RECURSIVE SumCredit(_)
SumCredit(b) ==
    IF DOMAIN b = {} THEN 0
    ELSE LET e == CHOOSE x \in DOMAIN b : TRUE
         IN  b[e] * e.credit + SumCredit([x \in (DOMAIN b) \ {e} |-> b[x]])

One(e) == SetToBag({e})

\* Voucher._totals: (Sum(debit), Sum(credit)) over self.lines
_totals(lns) == <<SumDebit(lns), SumCredit(lns)>>

\* Account.clean without the "Root accounts cannot be altered." check
AccountClean_NoRootLock(self, pk) ==
    IF self.parent = NoParent
    THEN IF self.is_group
         THEN IF self.root_type = ""
              THEN [ok |-> FALSE, acc |-> self]
              ELSE [ok |-> TRUE,
                    acc |-> [self EXCEPT !.report_type = report_type_from_root(self.root_type)]]
         ELSE IF ~self.is_primary_ledger
              THEN [ok |-> FALSE, acc |-> self]
              ELSE [ok |-> TRUE, acc |-> [self EXCEPT !.report_type = "PL"]]
    ELSE LET parent == accounts[self.parent]
             my_business == IF self.business = NoBusiness THEN parent.business
                            ELSE self.business
         IN  IF ~parent.is_group
             THEN [ok |-> FALSE, acc |-> self]
             ELSE IF parent.business # NoBusiness /\ my_business # parent.business
             THEN [ok |-> FALSE, acc |-> self]
             ELSE [ok |-> TRUE,
                   acc |-> [self EXCEPT !.business = my_business,
                                        !.root_type = parent.root_type,
                                        !.report_type = parent.report_type]]

\* ---- Account (ledger/models.py) ---------------------------------------------
\* Account.clean on an instance `self`; pk = 0 for an instance not yet stored.
\* The result carries the instance as clean() leaves it (root/report type
\* inherited from the stored parent).
AccountClean(self, pk) ==
    LET old_is_root == pk \in DOMAIN accounts /\ accounts[pk].is_root
        done(r) == IF old_is_root THEN [ok |-> FALSE, acc |-> self]
                   ELSE [ok |-> TRUE, acc |-> r]
    IN  IF self.parent = NoParent
        THEN IF self.is_group
             THEN IF self.root_type = ""
                  THEN [ok |-> FALSE, acc |-> self]
                  ELSE done([self EXCEPT !.report_type = report_type_from_root(self.root_type)])
             ELSE IF ~self.is_primary_ledger
                  THEN [ok |-> FALSE, acc |-> self]
                  ELSE done([self EXCEPT !.report_type = "PL"])
        ELSE LET parent == accounts[self.parent]
                 my_business == IF self.business = NoBusiness THEN parent.business
                                ELSE self.business
             IN  IF ~parent.is_group
                 THEN [ok |-> FALSE, acc |-> self]
                 ELSE IF parent.business # NoBusiness /\ my_business # parent.business
                 THEN [ok |-> FALSE, acc |-> self]
                 ELSE done([self EXCEPT !.business = my_business,
                                        !.root_type = parent.root_type,
                                        !.report_type = parent.report_type])

\* Account.save: is_root is recomputed, full_clean runs clean(), then the row
\* is written.  The result is the row to store, or ok = FALSE.
AccountSave(self, pk) ==
    AccountClean([self EXCEPT !.is_root = (self.parent = NoParent /\ self.is_group)], pk)

\* The "Under" choices of AccountForm.__init__
ParentChoices(business, include_root_groups) ==
    {a \in DOMAIN accounts :
        /\ accounts[a].business = business
        /\ accounts[a].is_group
        /\ (include_root_groups \/ accounts[a].name \notin STANDARD_ROOT_NAMES)}

\* AccountForm.clean followed by the model validation of the constructed
\* instance (ModelForm._post_clean).  inst is the instance the form was built
\* on; the result is the instance form.save(commit=False) returns.
AccountFormValid(inst, pk, business, parent_in, subledger_in, root_type_in, is_primary_in, include_root_groups) ==
    LET is_group == ~subledger_in
        bad == [ok |-> FALSE, acc |-> inst]
    IN  IF parent_in # NoParent /\ parent_in \notin ParentChoices(business, include_root_groups) THEN bad
        ELSE IF ~is_group /\ parent_in = NoParent /\ ~inst.is_primary_ledger THEN bad
        ELSE IF parent_in = NoParent /\ root_type_in = "" THEN bad
        ELSE IF is_primary_in /\ parent_in # NoParent THEN bad
        ELSE AccountClean([inst EXCEPT !.parent = parent_in,
                                       !.is_group = is_group,
                                       !.root_type = root_type_in], pk)

\* ---- Voucher / VoucherLine (ledger/models.py) -------------------------------
\* validate_balanced with the debit/credit comparison left out
validate_balanced_NoBalance(lns) ==
    IF BagCardinality(lns) < 2 THEN "few_lines"
    ELSE IF \E l \in DOMAIN lns : accounts[l.account].is_group THEN "group_line"
    ELSE "ok"

\* validate_balanced with the group-account check left out
validate_balanced_NoGroup(lns) ==
    IF BagCardinality(lns) < 2 THEN "few_lines"
    ELSE IF _totals(lns)[1] # _totals(lns)[2] THEN "unbalanced"
    ELSE "ok"

\* Voucher.validate_balanced over the stored lines of the voucher
validate_balanced(lns) ==
    IF BagCardinality(lns) < 2 THEN "few_lines"
    ELSE IF _totals(lns)[1] # _totals(lns)[2] THEN "unbalanced"
    ELSE IF \E l \in DOMAIN lns : accounts[l.account].is_group THEN "group_line"
    ELSE "ok"

\* post without the early return on an already posted voucher
post_NoReturn(self, lns, user, t) ==
    IF validate_balanced(lns) # "ok" THEN [res |-> "error", v |-> self]
    ELSE [res |-> "ok",
          v |-> [self EXCEPT !.is_posted = TRUE, !.posted_at = t, !.posted_by = user]]

\* Voucher.post on the loaded instance `self`; lns are the stored lines of the
\* voucher, t is timezone.now().  res: "noop" (already posted, returns),
\* "error" (ValidationError, nothing saved), "ok" (self is saved as returned).
post(self, lns, user, t) ==
    IF self.is_posted THEN [res |-> "noop", v |-> self]
    ELSE IF validate_balanced(lns) # "ok" THEN [res |-> "error", v |-> self]
    ELSE [res |-> "ok",
          v |-> [self EXCEPT !.is_posted = TRUE, !.posted_at = t, !.posted_by = user]]

\* The constraints with chk_debit_credit_non_negative left out
LineConstraints_NoSign(l) ==
    ~(l.debit > 0 /\ l.credit > 0)

\* The two CheckConstraints of VoucherLine.Meta
LineConstraints(l) ==
    /\ ~(l.debit > 0 /\ l.credit > 0)
    /\ l.debit >= 0 /\ l.credit >= 0

\* VoucherLine.clean; owner is the Voucher instance the line points to
VoucherLineClean(l, owner) ==
    /\ ~owner.is_posted
    /\ ~accounts[l.account].is_group
    /\ ~(l.debit = 0 /\ l.credit = 0)

\* VoucherLine.save: full_clean, then the INSERT/UPDATE under the constraints
VoucherLineSave(l, owner) == VoucherLineClean(l, owner) /\ LineConstraints(l)

\* VoucherLineForm.clean
VoucherLineFormClean(l) ==
    /\ ~(l.debit > 0 /\ l.credit > 0)
    /\ ~(l.debit = 0 /\ l.credit = 0)

\* Voucher.clean (run by ModelForm validation, not by Voucher.save)
VoucherClean(self, pk) ==
    ~(self.is_posted /\ pk \in DOMAIN vouchers /\ vouchers[pk].is_posted)

\* count() + 1 of voucher_entry / voucher_create / _next_voucher_number
_next_voucher_number == Cardinality(DOMAIN vouchers) + 1

\* uniq_voucher_number_per_business
NumberFree(n) == \A w \in DOMAIN vouchers : vouchers[w].number # n

NewVoucher(number, vtype, date, narration) ==
    [number |-> number, voucher_type |-> vtype, posting_date |-> date,
     narration |-> narration, is_posted |-> FALSE, posted_at |-> NoTime,
     posted_by |-> NoUser]

\* ---- helpers on the stored tables ------------------------------------------
Without(f, k) == [x \in (DOMAIN f) \ {k} |-> f[x]]

Ledgers == {a \in DOMAIN accounts : ~accounts[a].is_group}

SetMin(S) == CHOOSE x \in S : \A y \in S : x <= y

\* The last request served: operation, voucher or account, outcome, and the
\* line a voucher form submitted (NoLine when it submitted none).
NoLine == [account |-> 0, debit |-> 0, credit |-> 0]
ResultWith(op, v, res, line) == [op |-> op, v |-> v, res |-> res, line |-> line]
Result(op, v, res) == ResultWith(op, v, res, NoLine)

\* ---- ledger/views.py: vouchers -----------------------------------------------
\* A line of the inline formset is accepted when its account is one of the
\* ledgers offered, VoucherLineForm.clean passes and the model validation of
\* the constructed line passes.
FormLineValid(l, owner) ==
    /\ l.account \in Ledgers
    /\ VoucherLineFormClean(l)
    /\ VoucherLineClean(l, owner)

FirstLine(newlines) ==
    IF newlines = EmptyBag THEN NoLine ELSE CHOOSE l \in DOMAIN newlines : TRUE

\* voucher_create: header form and inline formset; saved as a draft in one
\* transaction (a duplicate number or a refused row rolls everything back).
voucher_create(vtype, date, narration, newlines) ==
    /\ LET v == NewVoucher(_next_voucher_number, vtype, date, narration)
           stored == /\ \A l \in DOMAIN newlines : FormLineValid(l, v)
                     /\ NumberFree(v.number)
                     /\ \A l \in DOMAIN newlines : VoucherLineSave(l, v)
       IN  IF stored
           THEN /\ vouchers' = vouchers @@ (nextId :> v)
                /\ lines' = lines @@ (nextId :> newlines)
                /\ nextId' = nextId + 1
                /\ last' = ResultWith("voucher_create", nextId, "ok", FirstLine(newlines))
           ELSE /\ UNCHANGED <<vouchers, lines, nextId>>
                /\ last' = ResultWith("voucher_create", 0, "error", FirstLine(newlines))
    /\ UNCHANGED <<accounts, stock, now, procs>>

\* The rows a formset submission leaves, or the stored rows when the change
\* cannot be applied.  change.kind: "none", "add" (a new row), "delete"
\* (DELETE ticked on a stored row), "modify" (a stored row re-entered).
ChangedLines(lns, change) ==
    CASE change.kind = "add" -> lns (+) One(change.new)
      [] change.kind = "delete" -> lns (-) One(change.old)
      [] change.kind = "modify" -> (lns (-) One(change.old)) (+) One(change.new)
      [] OTHER -> lns

SubmittedLine(change) ==
    IF change.kind \in {"add", "modify"} THEN change.new ELSE NoLine

\* voucher_edit accepts the request: the loaded voucher is not posted (the
\* view's own check), the header form validates (Voucher.clean) and every
\* row of the formset that is kept or written validates.
EditValid(v, self, edited, change) ==
    /\ ~self.is_posted
    /\ VoucherClean(edited, v)
    /\ \A l \in DOMAIN ChangedLines(lines[v], change) : FormLineValid(l, self)
    /\ change.kind \in {"add", "modify"} => VoucherLineSave(change.new, self)

voucher_edit(v, vtype, date, narration, change) ==
    /\ v \in DOMAIN vouchers
    /\ change.kind \in {"delete", "modify"} => BagIn(change.old, lines[v])
    /\ LET self == vouchers[v]
           edited == [self EXCEPT !.voucher_type = vtype, !.posting_date = date,
                                  !.narration = narration]
       IN  IF EditValid(v, self, edited, change)
           THEN /\ vouchers' = [vouchers EXCEPT ![v] = edited]
                /\ lines' = [lines EXCEPT ![v] = ChangedLines(lines[v], change)]
                /\ last' = ResultWith("voucher_edit", v, "ok", SubmittedLine(change))
           ELSE /\ UNCHANGED <<vouchers, lines>>
                /\ last' = ResultWith("voucher_edit", v, "error", SubmittedLine(change))
    /\ UNCHANGED <<accounts, nextId, stock, now, procs>>

\* Voucher.post called on a freshly loaded voucher (the kernel operation)
Post(v, user) ==
    /\ v \in DOMAIN vouchers
    /\ LET r == post(vouchers[v], lines[v], user, now)
       IN  /\ vouchers' = [vouchers EXCEPT ![v] = r.v]
           /\ last' = Result("post", v, r.res)
    /\ UNCHANGED <<accounts, lines, nextId, stock, now, procs>>

\* voucher_post: the view answers "Already posted." itself, else calls post()
voucher_post(v, user) ==
    /\ v \in DOMAIN vouchers
    /\ IF vouchers[v].is_posted
       THEN /\ UNCHANGED vouchers
            /\ last' = Result("voucher_post", v, "noop")
       ELSE LET r == post(vouchers[v], lines[v], user, now)
            IN  /\ vouchers' = [vouchers EXCEPT ![v] = r.v]
                /\ last' = Result("voucher_post", v, r.res)
    /\ UNCHANGED <<accounts, lines, nextId, stock, now, procs>>

\* The stock rows voucher_delete removes with voucher v
DeletedWith(v) ==
    {e \in DOMAIN stock : /\ e.voucher_type \in {"PURCHASE", "SALES"}
                          /\ e.voucher_id = v
                          /\ e.is_posted}

\* voucher_delete without the delete of the stock entries
voucher_delete_KeepEntries(v) ==
    /\ v \in DOMAIN vouchers
    /\ stock' = stock
    /\ vouchers' = Without(vouchers, v)
    /\ lines' = Without(lines, v)
    /\ last' = Result("voucher_delete", v, "ok")
    /\ UNCHANGED <<accounts, nextId, now, procs>>

\* voucher_delete: draft or posted; the lines go with the voucher (CASCADE)
voucher_delete(v) ==
    /\ v \in DOMAIN vouchers
    /\ stock' = [e \in (DOMAIN stock) \ DeletedWith(v) |-> stock[e]]
    /\ vouchers' = Without(vouchers, v)
    /\ lines' = Without(lines, v)
    /\ last' = Result("voucher_delete", v, "ok")
    /\ UNCHANGED <<accounts, nextId, now, procs>>

\* The lines voucher_entry writes: one top line for the total and one line
\* per particular, on the opposite side.
RECURSIVE SumAmount(_)
SumAmount(b) ==
    IF DOMAIN b = {} THEN 0
    ELSE LET e == CHOOSE x \in DOMAIN b : TRUE
         IN  b[e] * e.amount + SumAmount([x \in (DOMAIN b) \ {e} |-> b[x]])

RECURSIVE ParticularLines(_, _)
ParticularLines(b, receipt_style) ==
    IF DOMAIN b = {} THEN EmptyBag
    ELSE LET e == CHOOSE x \in DOMAIN b : TRUE
             l == IF receipt_style
                  THEN [account |-> e.account, debit |-> 0, credit |-> e.amount]
                  ELSE [account |-> e.account, debit |-> e.amount, credit |-> 0]
         IN  [x \in {l} |-> b[e]]
               (+) ParticularLines([x \in (DOMAIN b) \ {e} |-> b[x]], receipt_style)

EntryLines(vtype, contra_withdraw, top_account, particulars) ==
    LET total == SumAmount(particulars)
        receipt_style == vtype \in {"RECEIPT", "SALES"}
                            \/ (vtype = "CONTRA" /\ ~contra_withdraw)
        top == IF receipt_style
               THEN [account |-> top_account, debit |-> total, credit |-> 0]
               ELSE [account |-> top_account, debit |-> 0, credit |-> total]
    IN  One(top) (+) ParticularLines(particulars, receipt_style)

\* voucher_entry: header + particulars; the voucher, its lines and the posting
\* are one transaction.
voucher_entry(vtype, date, narration, contra_withdraw, top_account, particulars, user) ==
    /\ vtype \in {"RECEIPT", "PAYMENT", "CONTRA", "SALES", "PURCHASE"}
    /\ particulars # EmptyBag
    /\ top_account \in Ledgers
    /\ \A p \in DOMAIN particulars : p.account \in Ledgers /\ p.amount >= 1
    /\ LET v == NewVoucher(_next_voucher_number, vtype, date, narration)
           lns == EntryLines(vtype, contra_withdraw, top_account, particulars)
           r == post(v, lns, user, now)
           stored == /\ NumberFree(v.number)
                     /\ \A l \in DOMAIN lns : VoucherLineSave(l, v)
                     /\ r.res = "ok"
       IN  IF stored
           THEN /\ vouchers' = vouchers @@ (nextId :> r.v)
                /\ lines' = lines @@ (nextId :> lns)
                /\ nextId' = nextId + 1
                /\ last' = Result("voucher_entry", nextId, "ok")
           ELSE /\ UNCHANGED <<vouchers, lines, nextId>>
                /\ last' = Result("voucher_entry", 0, "error")
    /\ UNCHANGED <<accounts, stock, now, procs>>

\* ---- fix_pnl_voucher_accounts ----------------------------------------------
\* .first() of the ledger querysets of Command.handle (ordered by pk); 0: none
purchase_ledger ==
    LET S == {a \in Ledgers : accounts[a].root_type = "EXPENSE" \/ NameHasPurchase(accounts[a].name)}
    IN  IF S = {} THEN 0 ELSE SetMin(S)

sales_ledger ==
    LET S == {a \in Ledgers : accounts[a].root_type = "INCOME" \/ NameHasSales(accounts[a].name)}
    IN  IF S = {} THEN 0 ELSE SetMin(S)

\* The lines `wrong` can be for a posted voucher: a debit line off the
\* purchase ledger (PURCHASE), a credit line off the sales ledger (SALES).
WrongLines(vtype, lns) ==
    IF vtype = "PURCHASE"
    THEN {l \in DOMAIN lns : l.debit > 0 /\ l.account # purchase_ledger}
    ELSE {l \in DOMAIN lns : l.credit > 0 /\ l.account # sales_ledger}

\* The loop body without the final v.post()
FixOne_NoRepost(st, k, wrong) ==
    LET target == IF st.vs[k].voucher_type = "PURCHASE" THEN purchase_ledger ELSE sales_ledger
        unlocked == [st.vs[k] EXCEPT !.is_posted = FALSE]
        fixed == [wrong EXCEPT !.account = target]
        lns == (st.ls[k] (-) One(wrong)) (+) One(fixed)
    IN  IF VoucherLineSave(fixed, unlocked)
        THEN [vs |-> [st.vs EXCEPT ![k] = unlocked], ls |-> [st.ls EXCEPT ![k] = lns], ok |-> TRUE]
        ELSE [st EXCEPT !.ok = FALSE]

\* One pass of the loop body on voucher k: unlock, re-point the line, post()
\* again, all in one transaction.  The result is the stored state the
\* transaction leaves; ok = FALSE when it raised and was rolled back.
FixOne(st, k, wrong) ==
    LET target == IF st.vs[k].voucher_type = "PURCHASE" THEN purchase_ledger ELSE sales_ledger
        unlocked == [st.vs[k] EXCEPT !.is_posted = FALSE]
        fixed == [wrong EXCEPT !.account = target]
        lns == (st.ls[k] (-) One(wrong)) (+) One(fixed)
        r == post(unlocked, lns, NoUser, now)
    IN  IF VoucherLineSave(fixed, unlocked) /\ r.res = "ok"
        THEN [vs |-> [st.vs EXCEPT ![k] = r.v], ls |-> [st.ls EXCEPT ![k] = lns], ok |-> TRUE]
        ELSE [st EXCEPT !.ok = FALSE]

\* The stored states the loop over the vouchers with pk >= k can end in; an
\* exception leaves handle() with the earlier vouchers fixed.
RECURSIVE FixFrom(_, _)
FixFrom(k, st) ==
    IF k >= nextId THEN {st}
    ELSE IF \/ k \notin DOMAIN st.vs
            \/ ~st.vs[k].is_posted
            \/ st.vs[k].voucher_type \notin {"PURCHASE", "SALES"}
            \/ WrongLines(st.vs[k].voucher_type, st.ls[k]) = {}
         THEN FixFrom(k + 1, st)
         ELSE UNION { LET nxt == FixOne(st, k, wrong)
                      IN  IF nxt.ok THEN FixFrom(k + 1, nxt) ELSE {nxt}
                      : wrong \in WrongLines(st.vs[k].voucher_type, st.ls[k]) }

fix_pnl_voucher_accounts ==
    /\ purchase_ledger # 0 /\ sales_ledger # 0
    /\ \E out \in FixFrom(1, [vs |-> vouchers, ls |-> lines, ok |-> TRUE]) :
          /\ vouchers' = out.vs
          /\ lines' = out.ls
          /\ last' = Result("fix_pnl", 0, IF out.ok THEN "ok" ELSE "error")
    /\ UNCHANGED <<accounts, nextId, stock, now, procs>>

\* ---- ledger/views.py: accounts ------------------------------------------------
\* The common body of account_edit / group_alter / ledger_alter: the bound
\* AccountForm is validated, then form.save() saves the instance.
\* An alteration written with QuerySet.update(): no form, no full_clean()
AccountAlter_Update(op, pk, parent_in, subledger_in, root_type_in, is_primary_in, include_root_groups) ==
    /\ IF parent_in \in DOMAIN accounts \cup {NoParent}
       THEN /\ accounts' = [accounts EXCEPT ![pk].parent = parent_in,
                                            ![pk].is_group = ~subledger_in]
            /\ last' = Result(op, pk, "ok")
       ELSE /\ UNCHANGED accounts
            /\ last' = Result(op, pk, "error")
    /\ UNCHANGED <<vouchers, lines, nextId, stock, now, procs>>

AccountAlter(op, pk, parent_in, subledger_in, root_type_in, is_primary_in, include_root_groups) ==
    LET f == AccountFormValid(accounts[pk], pk, accounts[pk].business, parent_in, subledger_in,
                              root_type_in, is_primary_in, include_root_groups)
        s == AccountSave(f.acc, pk)
    IN  /\ IF f.ok /\ s.ok
           THEN /\ accounts' = [accounts EXCEPT ![pk] = s.acc]
                /\ last' = Result(op, pk, "ok")
           ELSE /\ UNCHANGED accounts
                /\ last' = Result(op, pk, "error")
        /\ UNCHANGED <<vouchers, lines, nextId, stock, now, procs>>

account_edit(pk, parent_in, subledger_in, root_type_in, is_primary_in) ==
    /\ pk \in DOMAIN accounts
    /\ AccountAlter("account_edit", pk, parent_in, subledger_in, root_type_in,
                    is_primary_in, FALSE)

group_alter(pk, parent_in, subledger_in, root_type_in, is_primary_in) ==
    /\ pk \in DOMAIN accounts
    /\ accounts[pk].is_group
    /\ AccountAlter("group_alter", pk, parent_in, subledger_in, root_type_in,
                    is_primary_in, TRUE)

\* ledger_alter: the form is bound with behaves_like_subledger forced on and
\* the standard roots left out of "Under"
ledger_alter(pk, parent_in, root_type_in, is_primary_in) ==
    /\ pk \in DOMAIN accounts
    /\ ~accounts[pk].is_group
    /\ AccountAlter("ledger_alter", pk, parent_in, TRUE, root_type_in,
                    is_primary_in, FALSE)

\* Account(): the instance a creation form starts from
NewAccount(name) ==
    [name |-> name, parent |-> NoParent, is_group |-> TRUE, root_type |-> "",
     report_type |-> "", is_root |-> FALSE, is_primary_ledger |-> FALSE,
     business |-> NoBusiness, opening_balance |-> 0, opening_balance_type |-> "DR"]

NextAccountId == 1 + Cardinality(DOMAIN accounts)

\* uniq_account_name_per_business
NameFree(business, name) ==
    \A a \in DOMAIN accounts : ~(accounts[a].business = business /\ accounts[a].name = name)

\* A creation written with bulk_create(): no form, no full_clean()
AccountCreate_Bulk(op, business, name, parent_in, subledger_in, root_type_in, is_primary_in, include_root_groups, is_group) ==
    /\ IF parent_in \in DOMAIN accounts \cup {NoParent} /\ NameFree(business, name)
       THEN /\ accounts' = accounts @@
                   (NextAccountId :> [NewAccount(name) EXCEPT !.business = business,
                                                              !.parent = parent_in,
                                                              !.is_group = is_group,
                                                              !.root_type = root_type_in])
            /\ last' = Result(op, NextAccountId, "ok")
       ELSE /\ UNCHANGED accounts
            /\ last' = Result(op, 0, "error")
    /\ UNCHANGED <<vouchers, lines, nextId, stock, now, procs>>

\* group_create / ledger_create: the form validates, the view sets business
\* and is_group on the instance, and acc.save() validates again and inserts
AccountCreate(op, business, name, parent_in, subledger_in, root_type_in, is_primary_in, include_root_groups, is_group) ==
    LET f == AccountFormValid(NewAccount(name), 0, business, parent_in, subledger_in,
                              root_type_in, is_primary_in, include_root_groups)
        s == AccountSave([f.acc EXCEPT !.business = business, !.is_group = is_group], 0)
    IN  /\ IF f.ok /\ s.ok /\ NameFree(business, name)
           THEN /\ accounts' = accounts @@ (NextAccountId :> s.acc)
                /\ last' = Result(op, NextAccountId, "ok")
           ELSE /\ UNCHANGED accounts
                /\ last' = Result(op, 0, "error")
        /\ UNCHANGED <<vouchers, lines, nextId, stock, now, procs>>

group_create(business, name, parent_in, subledger_in, root_type_in, is_primary_in) ==
    AccountCreate("group_create", business, name, parent_in, subledger_in, root_type_in,
                  is_primary_in, TRUE, TRUE)

ledger_create(business, name, parent_in, root_type_in, is_primary_in) ==
    AccountCreate("ledger_create", business, name, parent_in, TRUE, root_type_in,
                  is_primary_in, FALSE, FALSE)

\* ---- time ----------------------------------------------------------------------
Tick ==
    /\ now < MaxClock
    /\ now' = now + 1
    /\ last' = Result("tick", 0, "ok")
    /\ UNCHANGED <<accounts, vouchers, lines, nextId, stock, procs>>

\* ---- the chart of accounts install_coa leaves (a part of it) ------------------
Acct(name, parent, is_group, root_type) ==
    [name |-> name, parent |-> parent, is_group |-> is_group,
     root_type |-> root_type, report_type |-> report_type_from_root(root_type),
     is_root |-> (parent = NoParent /\ is_group), is_primary_ledger |-> FALSE,
     business |-> "acme", opening_balance |-> 0, opening_balance_type |-> "DR"]

Assets == 1
CashInHand == 2
Cash == 3
Expenses == 4
Purchase == 5
Income == 6
Sales == 7

InstalledChart ==
    (Assets :> Acct("Assets", NoParent, TRUE, "ASSET"))
    @@ (CashInHand :> Acct("Cash-in-Hand", Assets, TRUE, "ASSET"))
    @@ (Cash :> Acct("Cash", CashInHand, FALSE, "ASSET"))
    @@ (Expenses :> Acct("Expenses", NoParent, TRUE, "EXPENSE"))
    @@ (Purchase :> Acct("Purchase", Expenses, FALSE, "EXPENSE"))
    @@ (Income :> Acct("Income", NoParent, TRUE, "INCOME"))
    @@ (Sales :> Acct("Sales", Income, FALSE, "INCOME"))

\* The primary ledger install_coa adds with get_or_create: no group above it
PnL == 8

AccountsChart ==
    InstalledChart
    @@ (PnL :> [name |-> "Profit & Loss A/c", parent |-> NoParent, is_group |-> FALSE,
                root_type |-> "", report_type |-> "PL", is_root |-> FALSE,
                is_primary_ledger |-> TRUE, business |-> "acme",
                opening_balance |-> 0, opening_balance_type |-> "DR"])

NoProcs == <<>>
NoResult == Result("init", 0, "ok")

\* ---- the voucher ledger: specification ------------------------------------------
\* Inputs of the requests
Headers ==
    { [voucher_type |-> "JOURNAL", posting_date |-> 1, narration |-> ""],
      [voucher_type |-> "PURCHASE", posting_date |-> 2, narration |-> "n"] }
LineAccounts == {CashInHand, Cash, Purchase}
\* One-sided amounts on every account offered, and on Cash the amounts the
\* forms and the table refuse: both zero, both nonzero, a negative one.
RefusedAmounts == {<<0, 0>>, <<MaxAmt, 1>>, <<0 - 1, 0>>, <<0 - 1, MaxAmt>>}
LineInputs ==
    {[account |-> a, debit |-> m, credit |-> 0] : a \in LineAccounts, m \in 1 .. MaxAmt}
    \cup {[account |-> a, debit |-> 0, credit |-> m] : a \in LineAccounts, m \in 1 .. MaxAmt}
    \cup {[account |-> Cash, debit |-> p[1], credit |-> p[2]] : p \in RefusedAmounts}
NoChange == [kind |-> "none"]
LineChanges(v) ==
    {[kind |-> "add", new |-> l] : l \in IF BagCardinality(lines[v]) < MaxLines
                                         THEN LineInputs ELSE {}}
    \cup {[kind |-> "delete", old |-> l] : l \in DOMAIN lines[v]}
    \cup {[kind |-> "modify", old |-> o, new |-> l] : o \in DOMAIN lines[v], l \in LineInputs}
Particulars == {One([account |-> a, amount |-> m]) : a \in LineAccounts, m \in 0 .. MaxAmt}
User1 == "alice"
AlterTargets == {Cash}

Init ==
    /\ accounts = InstalledChart
    /\ vouchers = <<>>
    /\ lines = <<>>
    /\ nextId = 1
    /\ stock = EmptyBag
    /\ now = 1
    /\ last = NoResult
    /\ procs = NoProcs

Next ==
    \/ \E h \in Headers, nl \in {EmptyBag} \cup {One(l) : l \in LineInputs} :
          nextId <= MaxVouchers /\
          voucher_create(h.voucher_type, h.posting_date, h.narration, nl)
    \/ \E v \in DOMAIN vouchers, h \in Headers :
          voucher_edit(v, h.voucher_type, h.posting_date, h.narration, NoChange)
    \/ \E v \in DOMAIN vouchers : \E ch \in LineChanges(v) :
          voucher_edit(v, vouchers[v].voucher_type, vouchers[v].posting_date,
                       vouchers[v].narration, ch)
    \/ \E v \in DOMAIN vouchers : Post(v, User1)
    \/ \E v \in DOMAIN vouchers : voucher_post(v, User1)
    \/ \E v \in DOMAIN vouchers : voucher_delete(v)
    \/ \E t \in {"PURCHASE", "SALES"}, top \in LineAccounts, ps \in Particulars :
          nextId <= MaxVouchers /\
          voucher_entry(t, 1, "", FALSE, top, ps, User1)
    \/ fix_pnl_voucher_accounts
    \/ \E pk \in AlterTargets, sub \in BOOLEAN :
          account_edit(pk, accounts[pk].parent, sub, "", FALSE)
    \/ \E pk \in AlterTargets, sub \in BOOLEAN :
          group_alter(pk, accounts[pk].parent, sub, "", FALSE)
    \/ Tick

Spec == Init /\ [][Next]_vars

\* ---- two requests on one voucher ------------------------------------------------
\* A request is served in two steps: the view loads its own copy of the
\* voucher row (get_object_or_404), then works on that copy.  procs[p] is the
\* position of request handler p and the copy it holds.
Procs == 1 .. MaxProcs
UserOf(p) == IF p = 1 THEN "alice" ELSE "bob"
Idle == [pc |-> "idle", v |-> 0, copy |-> NewVoucher(0, "JOURNAL", 0, "")]

\* voucher_post, first step: v = get_object_or_404(Voucher, pk=pk)
RaceLoad(p, v) ==
    /\ procs[p].pc = "idle"
    /\ v \in DOMAIN vouchers
    /\ procs' = [procs EXCEPT ![p] = [pc |-> "loaded", v |-> v, copy |-> vouchers[v]]]
    /\ last' = Result("load", v, "ok")
    /\ UNCHANGED <<accounts, vouchers, lines, nextId, stock, now>>

\* voucher_post, second step, on the copy loaded before: "Already posted." if
\* the copy is posted, else copy.post(user), whose save() writes every field
\* of the copy over the stored row.  post() is one transaction.
RacePost(p) ==
    /\ procs[p].pc = "loaded"
    /\ LET v == procs[p].v
           copy == procs[p].copy
       IN  IF copy.is_posted
           THEN /\ UNCHANGED vouchers
                /\ last' = Result("voucher_post", v, "noop")
           ELSE LET r == post(copy, lines[v], UserOf(p), now)
                IN  /\ vouchers' = IF r.res = "ok" THEN [vouchers EXCEPT ![v] = r.v]
                                   ELSE vouchers
                    /\ last' = Result("voucher_post", v, r.res)
    /\ procs' = [procs EXCEPT ![p] = Idle]
    /\ UNCHANGED <<accounts, lines, nextId, stock, now>>

\* Drafts the two requests can meet: one that balances, one that does not
RaceDrafts ==
    { One([account |-> Purchase, debit |-> m, credit |-> 0])
        (+) One([account |-> Cash, debit |-> 0, credit |-> k]) : m \in 1 .. MaxAmt, k \in 1 .. MaxAmt }

InitRace ==
    /\ accounts = InstalledChart
    /\ vouchers = (1 :> NewVoucher(1, "JOURNAL", 1, ""))
    /\ lines \in {(1 :> b) : b \in RaceDrafts}
    /\ nextId = 2
    /\ stock = EmptyBag
    /\ now = 1
    /\ last = NoResult
    /\ procs = [p \in Procs |-> Idle]

NextRace ==
    \/ \E p \in Procs, v \in DOMAIN vouchers : RaceLoad(p, v)
    \/ \E p \in Procs : RacePost(p)
    \/ Tick

SpecRace == InitRace /\ [][NextRace]_vars

\* ---- a post and a line write on one draft voucher ------------------------------
\* Voucher.post reads the lines in validate_balanced and writes the voucher row
\* in save(); transaction.atomic takes no lock on the lines, so the
\* voucher_edit of another request can commit between the two.
\* voucher_post on the loaded copy up to the end of validate_balanced
PostCheck(p) ==
    /\ procs[p].pc = "loaded"
    /\ LET v == procs[p].v
           copy == procs[p].copy
       IN  IF copy.is_posted
           THEN /\ procs' = [procs EXCEPT ![p] = Idle]
                /\ last' = Result("voucher_post", v, "noop")
           ELSE IF validate_balanced(lines[v]) # "ok"
           THEN /\ procs' = [procs EXCEPT ![p] = Idle]
                /\ last' = Result("voucher_post", v, "error")
           ELSE /\ procs' = [procs EXCEPT ![p].pc = "checked"]
                /\ last' = Result("validate_balanced", v, "ok")
    /\ UNCHANGED <<accounts, vouchers, lines, nextId, stock, now>>

\* The rest of post(): is_posted, posted_at and posted_by are set on the copy
\* and save() writes the copy over the stored row
PostSave(p) ==
    /\ procs[p].pc = "checked"
    /\ LET v == procs[p].v
           copy == procs[p].copy
       IN  /\ vouchers' = [vouchers EXCEPT ![v] = [copy EXCEPT !.is_posted = TRUE, !.posted_at = now, !.posted_by = UserOf(p)]]
           /\ last' = Result("voucher_post", v, "ok")
    /\ procs' = [procs EXCEPT ![p] = Idle]
    /\ UNCHANGED <<accounts, lines, nextId, stock, now>>

\* voucher_edit on the loaded copy: "Posted vouchers are locked." if the copy
\* is posted, else the forms validate against the copy and the stored lines,
\* form.save() writes the copy and formset.save() writes the line
RaceEdit(p, change) ==
    /\ procs[p].pc = "loaded"
    /\ LET v == procs[p].v
           copy == procs[p].copy
       IN  /\ change.kind \in {"delete", "modify"} => BagIn(change.old, lines[v])
           /\ IF EditValid(v, copy, copy, change)
              THEN /\ vouchers' = [vouchers EXCEPT ![v] = copy]
                   /\ lines' = [lines EXCEPT ![v] = ChangedLines(lines[v], change)]
                   /\ last' = ResultWith("voucher_edit", v, "ok", SubmittedLine(change))
              ELSE /\ UNCHANGED <<vouchers, lines>>
                   /\ last' = ResultWith("voucher_edit", v, "error", SubmittedLine(change))
    /\ procs' = [procs EXCEPT ![p] = Idle]
    /\ UNCHANGED <<accounts, nextId, stock, now>>

NextLineRace ==
    \/ \E p \in Procs, v \in DOMAIN vouchers : RaceLoad(p, v)
    \/ \E p \in Procs : PostCheck(p)
    \/ \E p \in Procs : PostSave(p)
    \/ \E p \in Procs :
          procs[p].pc = "loaded" /\
          \E change \in LineChanges(procs[p].v) : RaceEdit(p, change)

SpecLineRace == InitRace /\ [][NextLineRace]_vars

\* ---- inventory/views.py: the stock ledger ------------------------------------------
\* Quantities are counted in thousandths (decimal_places = 3), rates and
\* amounts in hundredths.  stock is the bag of StockLedgerEntry rows.
QtyScale == 1000
Items == {"widget"}
Godowns == {"main", "shop"}
NoVoucher == 0

Abs(x) == IF x < 0 THEN 0 - x ELSE x

\* Decimal.quantize(Decimal("0.01")) of x / den for x >= 0: the default
\* context rounds half to even
Quantize(x, den) ==
    LET q == x \div den
        r == x % den
    IN  IF 2 * r < den THEN q
        ELSE IF 2 * r > den THEN q + 1
        ELSE IF q % 2 = 0 THEN q ELSE q + 1

_entry_amount(qty_in, qty_out, rate) == Quantize(Abs(qty_in - qty_out) * rate, QtyScale)

RECURSIVE SumNet(_)
SumNet(b) ==
    IF DOMAIN b = {} THEN 0
    ELSE LET e == CHOOSE x \in DOMAIN b : TRUE
         IN  b[e] * (e.qty_in - e.qty_out) + SumNet([x \in (DOMAIN b) \ {e} |-> b[x]])

\* _stock_balance(business_id, item_id, godown_id): Sum(qty_in) - Sum(qty_out)
\* over the posted entries of the item in the godown
_stock_balance(item, godown) ==
    LET S == {e \in DOMAIN stock : e.item = item /\ e.godown = godown /\ e.is_posted}
    IN  SumNet([e \in S |-> stock[e]])

StockEntry(date, item, godown, qty_in, qty_out, rate, vtype, vid, narration) ==
    [posting_date |-> date, item |-> item, godown |-> godown, qty_in |-> qty_in,
     qty_out |-> qty_out, rate |-> rate, amount |-> _entry_amount(qty_in, qty_out, rate),
     voucher_type |-> vtype, voucher_id |-> vid, is_posted |-> TRUE, narration |-> narration]

\* total = sum((r["qty"] * r["rate"]).quantize(Decimal("0.01")) for r in rows)
RECURSIVE RowsTotal(_)
RowsTotal(rows) ==
    IF rows = <<>> THEN 0
    ELSE Quantize(Head(rows).qty * Head(rows).rate, QtyScale) + RowsTotal(Tail(rows))

\* The entries written for the rows of a purchase (inward) or sales voucher
RECURSIVE RowEntries(_, _, _, _, _, _)
RowEntries(rows, date, godown, vtype, vid, narration) ==
    IF rows = <<>> THEN EmptyBag
    ELSE LET r == Head(rows)
             e == IF vtype = "PURCHASE"
                  THEN StockEntry(date, r.item, godown, r.qty, 0, r.rate, vtype, vid, narration)
                  ELSE StockEntry(date, r.item, godown, 0, r.qty, r.rate, vtype, vid, narration)
         IN  One(e) (+) RowEntries(Tail(rows), date, godown, vtype, vid, narration)

\* The choices of PurchaseVoucherForm.purchase_ledger / SalesVoucherForm.sales_ledger
PurchaseLedgerChoices ==
    LET S == {a \in Ledgers : accounts[a].root_type = "EXPENSE" \/ NameHasPurchase(accounts[a].name)}
    IN  IF S = {} THEN Ledgers ELSE S

SalesLedgerChoices ==
    LET S == {a \in Ledgers : accounts[a].root_type = "INCOME" \/ NameHasSales(accounts[a].name)}
    IN  IF S = {} THEN Ledgers ELSE S

\* Both forms valid and at least one row with qty > 0
RowsValid(rows) ==
    /\ rows # <<>>
    /\ \A i \in 1 .. Len(rows) :
          rows[i].item \in Items /\ rows[i].qty >= 1 /\ rows[i].rate >= 0

\* purchase_voucher_create without transaction.atomic(): what was written
\* before the exception stays, a draft voucher and its stock entries
purchase_voucher_create_NoRollback(date, narration, party, pledger, godown, rows, user) ==
    /\ party \in Ledgers /\ pledger \in PurchaseLedgerChoices /\ godown \in Godowns
    /\ RowsValid(rows)
    /\ LET total == RowsTotal(rows)
           v == NewVoucher(_next_voucher_number, "PURCHASE", date, narration)
           lns == One([account |-> pledger, debit |-> total, credit |-> 0])
                    (+) One([account |-> party, debit |-> 0, credit |-> total])
           r == post(v, lns, user, now)
           stored == /\ NumberFree(v.number)
                     /\ \A l \in DOMAIN lns : VoucherLineSave(l, v)
                     /\ r.res = "ok"
       IN  /\ vouchers' = vouchers @@ (nextId :> (IF stored THEN r.v ELSE v))
           /\ lines' = lines @@ (nextId :> (IF stored THEN lns ELSE EmptyBag))
           /\ stock' = stock (+) RowEntries(rows, date, godown, "PURCHASE", nextId, narration)
           /\ nextId' = nextId + 1
           /\ last' = Result("purchase_voucher_create", nextId, IF stored THEN "ok" ELSE "error")
    /\ UNCHANGED <<accounts, now, procs>>

\* purchase_voucher_create: the voucher, its two lines, one inward entry per
\* row and the posting are one transaction; any exception rolls it back.
purchase_voucher_create(date, narration, party, pledger, godown, rows, user) ==
    /\ party \in Ledgers /\ pledger \in PurchaseLedgerChoices /\ godown \in Godowns
    /\ RowsValid(rows)
    /\ LET total == RowsTotal(rows)
           v == NewVoucher(_next_voucher_number, "PURCHASE", date, narration)
           lns == One([account |-> pledger, debit |-> total, credit |-> 0])
                    (+) One([account |-> party, debit |-> 0, credit |-> total])
           r == post(v, lns, user, now)
           stored == /\ NumberFree(v.number)
                     /\ \A l \in DOMAIN lns : VoucherLineSave(l, v)
                     /\ r.res = "ok"
       IN  IF stored
           THEN /\ vouchers' = vouchers @@ (nextId :> r.v)
                /\ lines' = lines @@ (nextId :> lns)
                /\ stock' = stock (+) RowEntries(rows, date, godown, "PURCHASE", nextId, narration)
                /\ nextId' = nextId + 1
                /\ last' = Result("purchase_voucher_create", nextId, "ok")
           ELSE /\ UNCHANGED <<vouchers, lines, stock, nextId>>
                /\ last' = Result("purchase_voucher_create", 0, "error")
    /\ UNCHANGED <<accounts, now, procs>>

\* sales_voucher: every row is compared with the balance of its item in the
\* godown, each row on its own; then as purchase_voucher_create, outward.
sales_voucher(date, narration, party, sledger, godown, rows, user) ==
    /\ party \in Ledgers /\ sledger \in SalesLedgerChoices /\ godown \in Godowns
    /\ RowsValid(rows)
    /\ IF \E i \in 1 .. Len(rows) : _stock_balance(rows[i].item, godown) < rows[i].qty
       THEN /\ UNCHANGED <<vouchers, lines, stock, nextId>>
            /\ last' = Result("sales_voucher", 0, "insufficient")
       ELSE LET total == RowsTotal(rows)
                v == NewVoucher(_next_voucher_number, "SALES", date, narration)
                lns == One([account |-> party, debit |-> total, credit |-> 0])
                         (+) One([account |-> sledger, debit |-> 0, credit |-> total])
                r == post(v, lns, user, now)
                stored == /\ NumberFree(v.number)
                          /\ \A l \in DOMAIN lns : VoucherLineSave(l, v)
                          /\ r.res = "ok"
            IN  IF stored
                THEN /\ vouchers' = vouchers @@ (nextId :> r.v)
                     /\ lines' = lines @@ (nextId :> lns)
                     /\ stock' = stock (+) RowEntries(rows, date, godown, "SALES", nextId, narration)
                     /\ nextId' = nextId + 1
                     /\ last' = Result("sales_voucher", nextId, "ok")
                ELSE /\ UNCHANGED <<vouchers, lines, stock, nextId>>
                     /\ last' = Result("sales_voucher", 0, "error")
    /\ UNCHANGED <<accounts, now, procs>>

\* stock_journal that stops after the outward entry
stock_journal_OneLeg(date, narration, item, from_g, to_g, qty, rate) ==
    /\ item \in Items /\ from_g \in Godowns /\ to_g \in Godowns
    /\ from_g # to_g
    /\ qty >= 1 /\ rate >= 0
    /\ IF _stock_balance(item, from_g) < qty
       THEN /\ UNCHANGED stock
            /\ last' = Result("stock_journal", 0, "insufficient")
       ELSE /\ stock' = stock
                   (+) One(StockEntry(date, item, from_g, 0, qty, rate, "STOCK_JOURNAL", NoVoucher, narration))
            /\ last' = Result("stock_journal", 0, "ok")
    /\ UNCHANGED <<accounts, vouchers, lines, nextId, now, procs>>

\* stock_journal: a transfer between two different godowns; the outward and
\* the inward entry are one transaction and carry no voucher.
stock_journal(date, narration, item, from_g, to_g, qty, rate) ==
    /\ item \in Items /\ from_g \in Godowns /\ to_g \in Godowns
    /\ from_g # to_g
    /\ qty >= 1 /\ rate >= 0
    /\ IF _stock_balance(item, from_g) < qty
       THEN /\ UNCHANGED stock
            /\ last' = Result("stock_journal", 0, "insufficient")
       ELSE /\ stock' = stock
                   (+) One(StockEntry(date, item, from_g, 0, qty, rate, "STOCK_JOURNAL", NoVoucher, narration))
                   (+) One(StockEntry(date, item, to_g, qty, 0, rate, "STOCK_JOURNAL", NoVoucher, narration))
            /\ last' = Result("stock_journal", 0, "ok")
    /\ UNCHANGED <<accounts, vouchers, lines, nextId, now, procs>>

\* ---- the stock ledger: specification ------------------------------------------------
StockQtys == {QtyScale * k : k \in 1 .. MaxQty}
StockRates == {0, 100}
StockRows == [item : Items, qty : StockQtys, rate : StockRates]
RowInputs == UNION {[1 .. n -> StockRows] : n \in 1 .. MaxRows}
Journals == Cardinality({e \in DOMAIN stock : e.voucher_type = "STOCK_JOURNAL" /\ e.qty_in > 0})

NextStock ==
    \/ \E g \in Godowns, rows \in RowInputs :
          nextId <= MaxStockVouchers /\
          purchase_voucher_create(1, "", Cash, Purchase, g, rows, User1)
    \/ \E g \in Godowns, rows \in RowInputs :
          nextId <= MaxStockVouchers /\
          sales_voucher(1, "", Cash, Sales, g, rows, User1)
    \/ \E i \in Items, f \in Godowns, t \in Godowns, q \in StockQtys, r \in StockRates :
          Journals < MaxJournals /\
          stock_journal(1, "", i, f, t, q, r)
    \/ \E v \in DOMAIN vouchers : voucher_delete(v)

SpecStock == Init /\ [][NextStock]_vars

\* ---- deleting vouchers: specification ----------------------------------------------
\* Draft vouchers of the voucher form next to posted inventory vouchers
DraftLines == {EmptyBag, One([account |-> Cash, debit |-> 1, credit |-> 0])}

NextDelete ==
    \/ \E h \in Headers, nl \in DraftLines :
          nextId <= MaxStockVouchers /\
          voucher_create(h.voucher_type, h.posting_date, h.narration, nl)
    \/ \E g \in Godowns, rows \in RowInputs :
          nextId <= MaxStockVouchers /\
          purchase_voucher_create(1, "", Cash, Purchase, g, rows, User1)
    \/ \E g \in Godowns, rows \in RowInputs :
          nextId <= MaxStockVouchers /\
          sales_voucher(1, "", Cash, Sales, g, rows, User1)
    \/ \E v \in DOMAIN vouchers : voucher_delete(v)

SpecDelete == Init /\ [][NextDelete]_vars

\* ---- the account hierarchy: specification ------------------------------------------
\* Groups and ledgers are created and altered in two businesses; the first
\* has its chart installed, the second starts empty.
AccountNames == {"Capital", "Cash"}
RootTypeInputs == {"", "LIABILITY"}
\* The accounts the alter requests are sent for, and the "Under" values posted:
\* a root, a group, a ledger, the primary ledger and whatever was created
Created == {a \in DOMAIN accounts : a > PnL}
AlterInputs == {Assets, CashInHand, Cash, PnL} \cup Created
ParentInputs == {NoParent, Assets, CashInHand, Cash, Expenses} \cup Created
\* The fields posted: "Under", "Nature of Group" and "Primary"; Primary is
\* ticked with no parent and with one
FormPosts ==
    [parent : ParentInputs, root_type : RootTypeInputs, is_primary : {FALSE}]
    \cup [parent : {NoParent, Assets}, root_type : RootTypeInputs, is_primary : {TRUE}]

InitAccounts ==
    /\ accounts = AccountsChart
    /\ vouchers = <<>>
    /\ lines = <<>>
    /\ nextId = 1
    /\ stock = EmptyBag
    /\ now = 1
    /\ last = NoResult
    /\ procs = NoProcs

NextAccounts ==
    \/ \E b \in Businesses, n \in AccountNames, f \in FormPosts, sub \in BOOLEAN :
          Cardinality(DOMAIN accounts) < MaxAccounts /\
          group_create(b, n, f.parent, sub, f.root_type, f.is_primary)
    \/ \E b \in Businesses, n \in AccountNames, f \in FormPosts :
          Cardinality(DOMAIN accounts) < MaxAccounts /\
          ledger_create(b, n, f.parent, f.root_type, f.is_primary)
    \/ \E pk \in AlterInputs, f \in FormPosts, sub \in BOOLEAN :
          group_alter(pk, f.parent, sub, f.root_type, f.is_primary)
    \/ \E pk \in AlterInputs, f \in FormPosts :
          ledger_alter(pk, f.parent, f.root_type, f.is_primary)

SpecAccounts == InitAccounts /\ [][NextAccounts]_vars

\* ---- ledger/services/stock_valuation.py -------------------------------------------
NoDate == 0
NoGodown == "all"

RECURSIVE SumQtyIn(_)
SumQtyIn(b) ==
    IF DOMAIN b = {} THEN 0
    ELSE LET e == CHOOSE x \in DOMAIN b : TRUE
         IN  b[e] * e.qty_in + SumQtyIn([x \in (DOMAIN b) \ {e} |-> b[x]])

RECURSIVE SumQtyOut(_)
SumQtyOut(b) ==
    IF DOMAIN b = {} THEN 0
    ELSE LET e == CHOOSE x \in DOMAIN b : TRUE
         IN  b[e] * e.qty_out + SumQtyOut([x \in (DOMAIN b) \ {e} |-> b[x]])

RECURSIVE SumCost(_)
SumCost(b) ==
    IF DOMAIN b = {} THEN 0
    ELSE LET e == CHOOSE x \in DOMAIN b : TRUE
         IN  b[e] * e.amount + SumCost([x \in (DOMAIN b) \ {e} |-> b[x]])

\* queryset.filter(...): the rows of a bag that satisfy a test
Filter(b, Test(_)) == [e \in {x \in DOMAIN b : Test(x)} |-> b[e]]

\* The loop over item_ids with the receipts counted in every row of the item,
\* outward rows included
RECURSIVE ItemsValue_OutwardCost(_, _)
ItemsValue_OutwardCost(entries, item_ids) ==
    IF item_ids = {} THEN 0
    ELSE LET item_id == CHOOSE i \in item_ids : TRUE
             IsItem(e) == e.item = item_id
             item_entries == Filter(entries, IsItem)
             closing_qty == SumQtyIn(item_entries) - SumQtyOut(item_entries)
             cost_in == SumCost(item_entries)
             qty_in_total == SumQtyIn(item_entries)
             rest == ItemsValue_OutwardCost(entries, item_ids \ {item_id})
         IN  IF closing_qty <= 0 THEN rest
             ELSE IF qty_in_total > 0
             THEN rest + Quantize(closing_qty * cost_in, qty_in_total)
             ELSE rest

\* for item_id in item_ids: closing_qty, then the average rate of the
\* receipts (qty_in > 0) and (closing_qty * avg_rate).quantize(0.01).  The
\* quotient is taken exactly; Decimal keeps 28 significant digits of it.
RECURSIVE ItemsValue(_, _)
ItemsValue(entries, item_ids) ==
    IF item_ids = {} THEN 0
    ELSE LET item_id == CHOOSE i \in item_ids : TRUE
             IsItem(e) == e.item = item_id
             IsReceipt(e) == e.qty_in > 0
             item_entries == Filter(entries, IsItem)
             closing_qty == SumQtyIn(item_entries) - SumQtyOut(item_entries)
             in_entries == Filter(item_entries, IsReceipt)
             cost_in == SumCost(in_entries)
             qty_in_total == SumQtyIn(in_entries)
             rest == ItemsValue(entries, item_ids \ {item_id})
         IN  IF closing_qty <= 0 THEN rest
             ELSE IF qty_in_total > 0
             THEN rest + Quantize(closing_qty * cost_in, qty_in_total)
             ELSE rest

\* closing_stock_value(business, as_of_date, godown=None) on the table st
closing_stock_value(st, as_of_date, godown) ==
    IF as_of_date = NoDate THEN 0
    ELSE LET Wanted(e) == /\ e.is_posted
                          /\ e.posting_date <= as_of_date
                          /\ (godown # NoGodown => e.godown = godown)
             entries == Filter(st, Wanted)
             item_ids == {e.item : e \in DOMAIN entries}
         IN  ItemsValue(entries, item_ids)

\* The call, its arguments and its result recorded as the last request
Valuate(as_of_date, godown) ==
    /\ last' = Result("closing_stock_value", <<as_of_date, godown>>,
                      closing_stock_value(stock, as_of_date, godown))
    /\ UNCHANGED <<accounts, vouchers, lines, nextId, stock, now, procs>>

\* opening_stock_value with the day before taken as the period start itself
opening_stock_value_SameDay(st, period_start_date, godown) ==
    IF period_start_date = NoDate THEN 0
    ELSE closing_stock_value(st, period_start_date, godown)

\* opening_stock_value(business, period_start_date, godown=None): dates are day
\* numbers, timedelta(days=1) is 1
opening_stock_value(st, period_start_date, godown) ==
    IF period_start_date = NoDate THEN 0
    ELSE LET day_before == period_start_date - 1
         IN  closing_stock_value(st, day_before, godown)

OpeningValuate(period_start_date, godown) ==
    /\ last' = Result("opening_stock_value", <<period_start_date, godown>>,
                      opening_stock_value(stock, period_start_date, godown))
    /\ UNCHANGED <<accounts, vouchers, lines, nextId, stock, now, procs>>

\* ---- stock valuation: specification ---------------------------------------------------
\* The stock ledgers the function is applied to: up to MaxEntries rows of two
\* items, inward and outward, in two godowns, on two dates, posted and not.
ValItems == {"widget", "gadget"}
ValDates == {1, 2}
GodownArgs == Godowns \cup {NoGodown}
Unposted(e) == [e EXCEPT !.is_posted = FALSE]
ValuationEntries ==
    UNION {{ StockEntry(1, i, "main", 1000, 0, 100, "PURCHASE", 1, ""),
             StockEntry(1, i, "main", 2000, 0, 300, "PURCHASE", 1, ""),
             StockEntry(1, i, "shop", 1000, 0, 100, "PURCHASE", 1, ""),
             StockEntry(2, i, "main", 1000, 0, 300, "PURCHASE", 1, ""),
             Unposted(StockEntry(1, i, "main", 1000, 0, 300, "PURCHASE", 1, "")),
             StockEntry(1, i, "main", 0, 1000, 300, "SALES", 2, ""),
             StockEntry(2, i, "main", 0, 2000, 100, "SALES", 2, ""),
             Unposted(StockEntry(1, i, "main", 0, 1000, 100, "SALES", 2, "")) } : i \in ValItems}

InitValuation ==
    /\ accounts = InstalledChart
    /\ vouchers = <<>>
    /\ lines = <<>>
    /\ nextId = 1
    /\ stock \in {SetToBag(S) : S \in {T \in SUBSET ValuationEntries : Cardinality(T) <= MaxEntries}}
    /\ now = 1
    /\ last = NoResult
    /\ procs = NoProcs

\* Period starts: none, or the day after a date of the table
PeriodStarts == {NoDate} \cup {d + 1 : d \in ValDates}

NextValuation ==
    \/ \E d \in ValDates \cup {NoDate}, g \in GodownArgs : Valuate(d, g)
    \/ \E d \in PeriodStarts, g \in GodownArgs : OpeningValuate(d, g)

SpecValuation == InitValuation /\ [][NextValuation]_vars

\* ---- two requests on one stock balance -------------------------------------------
\* sales_voucher and stock_journal read the balance with _stock_balance()
\* before transaction.atomic() is entered and take no lock: a request is a
\* check step followed by a commit step, and another request can be served
\* between the two.  procs[p] holds what request p validated.
StockIdle == [pc |-> "idle", op |-> "none", godown |-> "main", to_godown |-> "main", rows |-> <<>>]

\* sales_voucher up to the stock check (forms valid, every row compared with
\* the stored balance)
SaleCheck(p, party, sledger, godown, rows) ==
    /\ procs[p].pc = "idle"
    /\ party \in Ledgers /\ sledger \in SalesLedgerChoices /\ godown \in Godowns
    /\ RowsValid(rows)
    /\ IF \E i \in 1 .. Len(rows) : _stock_balance(rows[i].item, godown) < rows[i].qty
       THEN /\ procs' = [procs EXCEPT ![p].pc = "done"]
            /\ last' = Result("sales_voucher", 0, "insufficient")
       ELSE /\ procs' = [procs EXCEPT ![p] = [pc |-> "checked", op |-> "sales_voucher",
                                              godown |-> godown, to_godown |-> godown,
                                              rows |-> rows]]
            /\ last' = Result("sales_check", 0, "ok")
    /\ UNCHANGED <<accounts, vouchers, lines, nextId, stock, now>>

\* sales_voucher from transaction.atomic() on: voucher, lines, outward
\* entries, post; the balance is not read again
SaleCommit(p, date, narration, party, sledger, user) ==
    /\ procs[p].pc = "checked" /\ procs[p].op = "sales_voucher"
    /\ LET rows == procs[p].rows
           total == RowsTotal(rows)
           v == NewVoucher(_next_voucher_number, "SALES", date, narration)
           lns == One([account |-> party, debit |-> total, credit |-> 0])
                    (+) One([account |-> sledger, debit |-> 0, credit |-> total])
           r == post(v, lns, user, now)
           stored == /\ NumberFree(v.number)
                     /\ \A l \in DOMAIN lns : VoucherLineSave(l, v)
                     /\ r.res = "ok"
       IN  IF stored
           THEN /\ vouchers' = vouchers @@ (nextId :> r.v)
                /\ lines' = lines @@ (nextId :> lns)
                /\ stock' = stock (+) RowEntries(rows, date, procs[p].godown, "SALES", nextId, narration)
                /\ nextId' = nextId + 1
                /\ last' = Result("sales_voucher", nextId, "ok")
           ELSE /\ UNCHANGED <<vouchers, lines, stock, nextId>>
                /\ last' = Result("sales_voucher", 0, "error")
    /\ procs' = [procs EXCEPT ![p].pc = "done"]
    /\ UNCHANGED <<accounts, now>>

\* stock_journal up to the balance check
JournalCheck(p, item, from_g, to_g, qty, rate) ==
    /\ procs[p].pc = "idle"
    /\ item \in Items /\ from_g \in Godowns /\ to_g \in Godowns
    /\ from_g # to_g
    /\ qty >= 1 /\ rate >= 0
    /\ IF _stock_balance(item, from_g) < qty
       THEN /\ procs' = [procs EXCEPT ![p].pc = "done"]
            /\ last' = Result("stock_journal", 0, "insufficient")
       ELSE /\ procs' = [procs EXCEPT ![p] = [pc |-> "checked", op |-> "stock_journal",
                                              godown |-> from_g, to_godown |-> to_g,
                                              rows |-> <<[item |-> item, qty |-> qty, rate |-> rate]>>]]
            /\ last' = Result("journal_check", 0, "ok")
    /\ UNCHANGED <<accounts, vouchers, lines, nextId, stock, now>>

\* stock_journal from transaction.atomic() on: the two entries
JournalCommit(p, date, narration) ==
    /\ procs[p].pc = "checked" /\ procs[p].op = "stock_journal"
    /\ LET r == procs[p].rows[1]
       IN  stock' = stock
              (+) One(StockEntry(date, r.item, procs[p].godown, 0, r.qty, r.rate,
                                 "STOCK_JOURNAL", NoVoucher, narration))
              (+) One(StockEntry(date, r.item, procs[p].to_godown, r.qty, 0, r.rate,
                                 "STOCK_JOURNAL", NoVoucher, narration))
    /\ last' = Result("stock_journal", 0, "ok")
    /\ procs' = [procs EXCEPT ![p].pc = "done"]
    /\ UNCHANGED <<accounts, vouchers, lines, nextId, now>>

\* The stock the two requests meet: one posted purchase of a widget
SingleRows == {<<r>> : r \in StockRows}

InitStockRace ==
    /\ accounts = InstalledChart
    /\ \E g \in Godowns, q \in StockQtys :
          LET total == Quantize(q * 100, QtyScale)
              lns == One([account |-> Purchase, debit |-> total, credit |-> 0])
                       (+) One([account |-> Cash, debit |-> 0, credit |-> total])
          IN  /\ vouchers = (1 :> post(NewVoucher(1, "PURCHASE", 1, ""), lns, User1, 1).v)
              /\ lines = (1 :> lns)
              /\ stock = One(StockEntry(1, "widget", g, q, 0, 100, "PURCHASE", 1, ""))
    /\ nextId = 2
    /\ now = 1
    /\ last = NoResult
    /\ procs = [p \in Procs |-> StockIdle]

NextStockRace ==
    \/ \E p \in Procs, g \in Godowns, rows \in SingleRows : SaleCheck(p, Cash, Sales, g, rows)
    \/ \E p \in Procs : SaleCommit(p, 1, "", Cash, Sales, UserOf(p))
    \/ \E p \in Procs, i \in Items, f \in Godowns, t \in Godowns, q \in StockQtys, r \in StockRates :
          JournalCheck(p, i, f, t, q, r)
    \/ \E p \in Procs : JournalCommit(p, 1, "")

SpecStockRace == InitStockRace /\ [][NextStockRace]_vars

\* ---- ledger/services/pnl.py ---------------------------------------------------
\* None as a root type: (a["root_type"] or "").strip() or None
Unresolved == ""
PnLTypes == {"INCOME", "EXPENSE"}

\* any(h in name_lower for h in HINTS) over the account names of the model
_INCOME_NAME_HINTS(name) == name \in {"Sales", "Sales Tax Payable", "Income"}
_EXPENSE_NAME_HINTS(name) == name \in {"Purchase", "Rent", "Expenses", "Indirect Expenses"}
_SALES_NAME_HINTS(name) == NameHasSales(name)
_PURCHASE_NAME_HINTS(name) == NameHasPurchase(name)

\* walk(aid, seen) with the cache it fills: the root type found, and the seen
\* set and the cache as the call leaves them
RECURSIVE walk(_, _, _, _)
walk(business, aid, seen, cache) ==
    IF aid \in DOMAIN cache THEN [rt |-> cache[aid], seen |-> seen, cache |-> cache]
    ELSE IF aid \in seen
    THEN [rt |-> Unresolved, seen |-> seen, cache |-> (aid :> Unresolved) @@ cache]
    ELSE LET seen1 == seen \cup {aid}
         IN  IF ~(aid \in DOMAIN accounts /\ accounts[aid].business = business)
             THEN [rt |-> Unresolved, seen |-> seen1, cache |-> (aid :> Unresolved) @@ cache]
             ELSE LET pid == accounts[aid].parent
                      rt == accounts[aid].root_type
                  IN  IF pid = NoParent
                      THEN [rt |-> rt, seen |-> seen1, cache |-> (aid :> rt) @@ cache]
                      ELSE LET parent_rt == walk(business, pid, seen1, cache)
                           IN  [rt |-> parent_rt.rt, seen |-> parent_rt.seen,
                                cache |-> (aid :> parent_rt.rt) @@ parent_rt.cache]

\* for aid in account_ids: if aid not in cache: walk(aid, set())
RECURSIVE ResolveEach(_, _, _)
ResolveEach(business, order, cache) ==
    IF order = <<>> THEN cache
    ELSE LET aid == Head(order)
             filled == IF aid \in DOMAIN cache THEN cache
                       ELSE walk(business, aid, {}, cache).cache
         IN  ResolveEach(business, Tail(order), filled)

\* _resolve_root_types(business, account_ids), the ids in the order the loop
\* takes them
_resolve_root_types(business, order) ==
    IF order = <<>> THEN <<>> ELSE ResolveEach(business, order, <<>>)

\* The ids of a set in ascending order
RECURSIVE Ordered(_)
Ordered(S) == IF S = {} THEN <<>> ELSE <<SetMin(S)>> \o Ordered(S \ {SetMin(S)})

\* voucher__is_posted=True, posting_date__gte=start_date, posting_date__lte=end_date
PeriodVouchers(start_date, end_date) ==
    {v \in DOMAIN vouchers :
        /\ vouchers[v].is_posted
        /\ (start_date # NoDate => vouchers[v].posting_date >= start_date)
        /\ (end_date # NoDate => vouchers[v].posting_date <= end_date)}

\* Sum("debit") and Sum("credit") of the lines of account a in the vouchers V
RECURSIVE AccountDebit(_, _)
AccountDebit(a, V) ==
    IF V = {} THEN 0
    ELSE LET v == CHOOSE x \in V : TRUE
             OnAccount(l) == l.account = a
         IN  SumDebit(Filter(lines[v], OnAccount)) + AccountDebit(a, V \ {v})

RECURSIVE AccountCredit(_, _)
AccountCredit(a, V) ==
    IF V = {} THEN 0
    ELSE LET v == CHOOSE x \in V : TRUE
             OnAccount(l) == l.account = a
         IN  SumCredit(Filter(lines[v], OnAccount)) + AccountCredit(a, V \ {v})

\* The accounts with a row: account__is_group=False, at least one line in V
RowAccounts(V) ==
    {a \in Ledgers : \E v \in V : \E l \in DOMAIN lines[v] : l.account = a}

\* The root type a row is classified with: the account's own, its parent's,
\* the walked one, and the name hints when none of them is INCOME or EXPENSE
RowRootType(a, root_types_walk) ==
    LET rt_acc == accounts[a].root_type
        rt_parent == IF accounts[a].parent \in DOMAIN accounts
                     THEN accounts[accounts[a].parent].root_type ELSE Unresolved
        rt_walk == IF a \in DOMAIN root_types_walk THEN root_types_walk[a] ELSE Unresolved
        root_type == IF rt_acc \in PnLTypes THEN rt_acc
                     ELSE IF rt_parent \in PnLTypes THEN rt_parent
                     ELSE rt_walk
        name == accounts[a].name
    IN  IF root_type \notin PnLTypes
        THEN IF _INCOME_NAME_HINTS(name) THEN "INCOME"
             ELSE IF _EXPENSE_NAME_HINTS(name) THEN "EXPENSE"
             ELSE root_type
        ELSE root_type

\* The list a row is appended to and the amount it adds, "skipped" for continue
PnLRow(a, V, root_types_walk) ==
    LET root_type == RowRootType(a, root_types_walk)
        name == accounts[a].name
        dr == AccountDebit(a, V)
        cr == AccountCredit(a, V)
    IN  IF root_type \notin PnLTypes THEN [bucket |-> "skipped", name |-> name, amt |-> 0]
        ELSE IF root_type = "INCOME"
        THEN IF cr - dr = 0 THEN [bucket |-> "skipped", name |-> name, amt |-> 0]
             ELSE IF _SALES_NAME_HINTS(name) THEN [bucket |-> "sales", name |-> name, amt |-> cr - dr]
             ELSE [bucket |-> "other_income", name |-> name, amt |-> cr - dr]
        ELSE IF dr - cr = 0 THEN [bucket |-> "skipped", name |-> name, amt |-> 0]
             ELSE IF _PURCHASE_NAME_HINTS(name) THEN [bucket |-> "purchases", name |-> name, amt |-> dr - cr]
             ELSE [bucket |-> "indirect_expense", name |-> name, amt |-> dr - cr]

\* sales_total, purchase_total, ...: the amounts of the rows of one list
RECURSIVE BucketTotal(_, _)
BucketTotal(rows, bucket) ==
    IF DOMAIN rows = {} THEN 0
    ELSE LET a == CHOOSE x \in DOMAIN rows : TRUE
         IN  (IF rows[a].bucket = bucket THEN rows[a].amt ELSE 0)
             + BucketTotal(Without(rows, a), bucket)

BucketList(rows, bucket) ==
    {<<rows[a].name, rows[a].amt>> : a \in {x \in DOMAIN rows : rows[x].bucket = bucket}}

\* date.today(): the last day of the model's calendar
Today == 2
NoOverride == 0 - 1

\* Decimal(str(override)).quantize(Decimal("0.01")), the override in thousandths
OverrideValue(override) == Quantize(override, 10)

\* compute_profit_and_loss(business, start_date, end_date, godown=...,
\* opening_stock_override=..., closing_stock_override=...): amounts in hundredths
compute_profit_and_loss(business, start_date, end_date, godown, opening_stock_override, closing_stock_override) ==
    LET V == PeriodVouchers(start_date, end_date)
        account_ids == RowAccounts(V)
        root_types_walk == _resolve_root_types(business, Ordered(account_ids))
        rows == [a \in account_ids |-> PnLRow(a, V, root_types_walk)]
        sales_total == BucketTotal(rows, "sales")
        purchase_total == BucketTotal(rows, "purchases")
        other_income_total == BucketTotal(rows, "other_income")
        indirect_expense_total == BucketTotal(rows, "indirect_expense")
        period_end == IF end_date # NoDate THEN end_date ELSE Today
        opening_stock == IF opening_stock_override # NoOverride
                         THEN OverrideValue(opening_stock_override)
                         ELSE opening_stock_value(stock, start_date, godown)
        closing_stock == IF closing_stock_override # NoOverride
                         THEN OverrideValue(closing_stock_override)
                         ELSE closing_stock_value(stock, period_end, godown)
        cogs == opening_stock + purchase_total - closing_stock
        gross_profit == sales_total - cogs
        net_profit == gross_profit - indirect_expense_total + other_income_total
    IN  [sales |-> BucketList(rows, "sales"),
         purchases |-> BucketList(rows, "purchases"),
         other_income |-> BucketList(rows, "other_income"),
         indirect_expense |-> BucketList(rows, "indirect_expense"),
         sales_total |-> sales_total,
         purchase_total |-> purchase_total,
         other_income_total |-> other_income_total,
         indirect_expense_total |-> indirect_expense_total,
         opening_stock_value |-> opening_stock,
         closing_stock_value |-> closing_stock,
         cogs |-> cogs,
         gross_profit |-> gross_profit,
         net_profit |-> net_profit,
         total_income |-> sales_total + other_income_total,
         total_expense |-> purchase_total + indirect_expense_total,
         total_debit |-> opening_stock + purchase_total + indirect_expense_total + net_profit,
         total_credit |-> sales_total + closing_stock]

\* The report view's call, its arguments and its result recorded
ProfitAndLoss(start_date, end_date, godown, opening_stock_override, closing_stock_override) ==
    /\ last' = Result("compute_profit_and_loss",
                      <<start_date, end_date, godown, opening_stock_override, closing_stock_override>>,
                      compute_profit_and_loss("acme", start_date, end_date, godown,
                                              opening_stock_override, closing_stock_override))
    /\ UNCHANGED <<accounts, vouchers, lines, nextId, stock, now, procs>>

\* ---- ledger/services/balance_sheet.py ------------------------------------------
\* _ledger_closing_balances with the lines of draft vouchers counted as well
_ledger_closing_balances_WithDrafts(business, end_date) ==
    LET V == {v \in DOMAIN vouchers : end_date # NoDate => vouchers[v].posting_date <= end_date}
        ledgers == {a \in DOMAIN accounts : accounts[a].business = business /\ ~accounts[a].is_group}
    IN  [ledger \in ledgers |->
            LET op_bal == accounts[ledger].opening_balance
                opening_net == IF accounts[ledger].opening_balance_type = "CR" THEN 0 - op_bal ELSE op_bal
            IN  opening_net + AccountDebit(ledger, V) - AccountCredit(ledger, V)]

\* _ledger_closing_balances(business, end_date=None): account id -> closing_net
_ledger_closing_balances(business, end_date) ==
    LET V == {v \in DOMAIN vouchers :
                 /\ vouchers[v].is_posted
                 /\ (end_date # NoDate => vouchers[v].posting_date <= end_date)}
        ledgers == {a \in DOMAIN accounts : accounts[a].business = business /\ ~accounts[a].is_group}
    IN  [ledger \in ledgers |->
            LET op_bal == accounts[ledger].opening_balance
                opening_net == IF accounts[ledger].opening_balance_type = "CR" THEN 0 - op_bal ELSE op_bal
            IN  opening_net + AccountDebit(ledger, V) - AccountCredit(ledger, V)]

\* children_map[parent_id] among the accounts of the business
Children(business, parent_id) ==
    {a \in DOMAIN accounts : accounts[a].business = business /\ accounts[a].parent = parent_id}

RECURSIVE _descendant_ledger_ids(_, _)
_descendant_ledger_ids(business, group_id) ==
    UNION {IF accounts[c].is_group THEN _descendant_ledger_ids(business, c) ELSE {c} :
              c \in Children(business, group_id)}

RECURSIVE SumClosing(_, _)
SumClosing(closing_by_ledger, ids) ==
    IF ids = {} THEN 0
    ELSE LET lid == CHOOSE x \in ids : TRUE
         IN  (IF lid \in DOMAIN closing_by_ledger THEN closing_by_ledger[lid] ELSE 0)
             + SumClosing(closing_by_ledger, ids \ {lid})

\* group_balances(root_ids, sign_for_display): one row per root that is a group
group_balances(business, closing_by_ledger, root_ids, sign_for_display) ==
    [root_id \in {r \in root_ids : accounts[r].is_group} |->
        [name |-> accounts[root_id].name,
         total |-> sign_for_display
                     * SumClosing(closing_by_ledger, _descendant_ledger_ids(business, root_id))]]

RECURSIVE SumRows(_)
SumRows(rows) ==
    IF DOMAIN rows = {} THEN 0
    ELSE LET r == CHOOSE x \in DOMAIN rows : TRUE
         IN  rows[r].total + SumRows(Without(rows, r))

\* The roots of one side: the primary groups, or the standard root when there
\* is none
SideRoots(business, root_type) ==
    LET root_ids == Children(business, NoParent)
        primary == {aid \in root_ids : /\ accounts[aid].root_type = root_type
                                       /\ accounts[aid].name \notin STANDARD_ROOT_NAMES}
    IN  IF primary # {} THEN primary
        ELSE {aid \in root_ids : accounts[aid].root_type = root_type}

\* compute_balance_sheet(business, end_date=None)
compute_balance_sheet(business, end_date) ==
    LET closing_by_ledger == _ledger_closing_balances(business, end_date)
        liability_rows == group_balances(business, closing_by_ledger, SideRoots(business, "LIABILITY"), 0 - 1)
        asset_rows == group_balances(business, closing_by_ledger, SideRoots(business, "ASSET"), 1)
        pnl_data == compute_profit_and_loss(business, NoDate, end_date, NoGodown, NoOverride, NoOverride)
        gross_profit == pnl_data.gross_profit
    IN  [liability_rows |-> {<<liability_rows[r].name, liability_rows[r].total>> : r \in DOMAIN liability_rows},
         asset_rows |-> {<<asset_rows[r].name, asset_rows[r].total>> : r \in DOMAIN asset_rows},
         gross_profit |-> gross_profit,
         total_liabilities |-> SumRows(liability_rows) + gross_profit,
         total_assets |-> SumRows(asset_rows)]

BalanceSheet(end_date) ==
    /\ last' = Result("compute_balance_sheet", <<end_date>>, compute_balance_sheet("acme", end_date))
    /\ UNCHANGED <<accounts, vouchers, lines, nextId, stock, now, procs>>

\* The ledger balances of the balance sheet asked for on their own
LedgerClosingBalances(end_date) ==
    /\ last' = Result("_ledger_closing_balances", <<end_date>>, _ledger_closing_balances("acme", end_date))
    /\ UNCHANGED <<accounts, vouchers, lines, nextId, stock, now, procs>>

\* ---- reports: specification ----------------------------------------------------------
\* The books the reports are computed on: the installed chart with a group and
\* two ledgers created under it (group_create, ledger_create) and an opening
\* balance on Cash and on Sundry Creditors, up
\* to two vouchers of two lines each, posted or draft, and a stock ledger.
Liabilities == 9
SundryCreditors == 10
IndirectExpenses == 11
Rent == 12
InterestReceived == 13
SalesTaxPayable == 14
CurrentLiabilities == 15

WithOpening(acc, opening_balance, opening_balance_type) ==
    [acc EXCEPT !.opening_balance = opening_balance, !.opening_balance_type = opening_balance_type]

ReportChart ==
    (Cash :> WithOpening(Acct("Cash", CashInHand, FALSE, "ASSET"), 100, "DR"))
    @@ AccountsChart
    @@ (Liabilities :> Acct("Liabilities", NoParent, TRUE, "LIABILITY"))
    @@ (SundryCreditors :> WithOpening(Acct("Sundry Creditors", Liabilities, FALSE, "LIABILITY"), 100, "CR"))
    @@ (IndirectExpenses :> Acct("Indirect Expenses", Expenses, TRUE, "EXPENSE"))
    @@ (Rent :> Acct("Rent", IndirectExpenses, FALSE, "EXPENSE"))
    @@ (InterestReceived :> Acct("Interest Received", Income, FALSE, "INCOME"))
    @@ (CurrentLiabilities :> Acct("Current Liabilities", Liabilities, TRUE, "LIABILITY"))
    @@ (SalesTaxPayable :> Acct("Sales Tax Payable", CurrentLiabilities, FALSE, "LIABILITY"))

ReportDates == {1, 2}

\* <<debited ledger, credited ledger>> of the vouchers entered
ReportEntries ==
    {<<Purchase, Cash>>, <<Cash, Sales>>, <<Rent, Cash>>, <<Cash, InterestReceived>>,
     <<Cash, SalesTaxPayable>>, <<Purchase, SundryCreditors>>}

ReportVoucher(date, is_posted) ==
    [NewVoucher(0, "JOURNAL", date, "") EXCEPT
        !.is_posted = is_posted,
        !.posted_at = IF is_posted THEN 1 ELSE NoTime,
        !.posted_by = IF is_posted THEN User1 ELSE NoUser]

TwoLines(entry, amount) ==
    One([account |-> entry[1], debit |-> amount, credit |-> 0])
    (+) One([account |-> entry[2], debit |-> 0, credit |-> amount])

\* A voucher and its lines: posted ones of 1.00 or 2.00 on either day, a draft
\* of 1.00 on day 1
ReportVouchers ==
    {[v |-> ReportVoucher(d, TRUE), lns |-> TwoLines(e, m)] :
        d \in ReportDates, e \in ReportEntries, m \in {100, 200}}
    \cup {[v |-> ReportVoucher(1, FALSE), lns |-> TwoLines(e, 100)] : e \in ReportEntries}

\* The stock ledger next to the vouchers: nothing, the receipt of a purchase
\* voucher, or that receipt and the issue of a sales voucher
PurchaseReceipt == StockEntry(1, "widget", "main", 1000, 0, 100, "PURCHASE", 1, "")
SalesIssue == StockEntry(2, "widget", "main", 0, 1000, 200, "SALES", 2, "")
ReportStocks == {EmptyBag, One(PurchaseReceipt), One(PurchaseReceipt) (+) One(SalesIssue)}

\* A stock row stands next to the posted voucher that wrote it
StockMatches(n, pick, st) ==
    /\ BagIn(PurchaseReceipt, st) =>
           /\ n >= 1
           /\ pick[1].v = ReportVoucher(1, TRUE)
           /\ pick[1].lns \in {TwoLines(<<Purchase, Cash>>, 100), TwoLines(<<Purchase, SundryCreditors>>, 100)}
    /\ BagIn(SalesIssue, st) =>
           /\ n >= 2
           /\ pick[2].v = ReportVoucher(2, TRUE)
           /\ pick[2].lns = TwoLines(<<Cash, Sales>>, 200)

InitReports ==
    /\ accounts = ReportChart
    /\ stock \in ReportStocks
    /\ \E n \in 0 .. 2 : \E pick \in [1 .. n -> ReportVouchers] :
          /\ StockMatches(n, pick, stock)
          /\ vouchers = [k \in 1 .. n |-> [pick[k].v EXCEPT !.number = k]]
          /\ lines = [k \in 1 .. n |-> pick[k].lns]
          /\ nextId = n + 1
    /\ now = 1
    /\ last = NoResult
    /\ procs = NoProcs

\* The arguments the profit and loss view passes: every period without
\* overrides, then one godown and one override of each stock value
PnLInputs ==
    {<<s, e, NoGodown, NoOverride, NoOverride>> : s \in ReportDates \cup {NoDate}, e \in ReportDates \cup {NoDate}}
    \cup {<<NoDate, 2, "shop", NoOverride, NoOverride>>,
          <<2, 2, NoGodown, 1005, NoOverride>>,
          <<NoDate, 2, NoGodown, NoOverride, 2015>>}

NextReports ==
    \/ \E i \in PnLInputs : ProfitAndLoss(i[1], i[2], i[3], i[4], i[5])
    \/ \E e \in ReportDates \cup {NoDate} : BalanceSheet(e)
    \/ \E e \in ReportDates \cup {NoDate} : LedgerClosingBalances(e)

SpecReports == InitReports /\ [][NextReports]_vars

\* ---- _resolve_root_types, one call or return of walk per step ------------------
\* The running call: the ids still to take, the argument of the walk being
\* entered, the callers waiting for their parent's result, the seen set of the
\* current top-level walk, the cache and the value being returned.
ResolveIdle ==
    [pc |-> "idle", ids |-> <<>>, order |-> <<>>, arg |-> 0, seen |-> {}, stack |-> <<>>,
     cache |-> <<>>, ret |-> Unresolved]

\* _resolve_root_types(business, account_ids) is entered; an empty
\* account_ids returns {} at once
ResolveCall(order) ==
    /\ procs.pc = "idle"
    /\ procs' = [procs EXCEPT !.pc = "loop", !.ids = order, !.order = order]
    /\ UNCHANGED <<accounts, vouchers, lines, nextId, stock, now, last>>

\* for aid in account_ids: if aid not in cache: walk(aid, set()); return cache
ResolveLoop ==
    /\ procs.pc = "loop"
    /\ IF procs.order = <<>>
       THEN /\ procs' = [procs EXCEPT !.pc = "done"]
            /\ last' = Result("_resolve_root_types", procs.ids, procs.cache)
       ELSE LET aid == Head(procs.order)
            IN  /\ procs' = IF aid \in DOMAIN procs.cache
                            THEN [procs EXCEPT !.order = Tail(@)]
                            ELSE [procs EXCEPT !.order = Tail(@), !.pc = "call",
                                               !.arg = aid, !.seen = {}, !.stack = <<>>]
                /\ UNCHANGED last
    /\ UNCHANGED <<accounts, vouchers, lines, nextId, stock, now>>

\* walk(aid, seen) that caches the account's own root type when it meets aid
\* a second time
WalkCall_CycleKeepsType ==
    /\ procs.pc = "call"
    /\ LET aid == procs.arg
           known == aid \in DOMAIN accounts /\ accounts[aid].business = "acme"
       IN  procs' =
             IF aid \in DOMAIN procs.cache
             THEN [procs EXCEPT !.pc = "return", !.ret = procs.cache[aid]]
             ELSE IF aid \in procs.seen
             THEN [procs EXCEPT !.pc = "return", !.ret = accounts[aid].root_type,
                                !.cache = (aid :> accounts[aid].root_type) @@ @]
             ELSE IF ~known
             THEN [procs EXCEPT !.pc = "return", !.ret = Unresolved,
                                !.seen = @ \cup {aid}, !.cache = (aid :> Unresolved) @@ @]
             ELSE IF accounts[aid].parent = NoParent
             THEN [procs EXCEPT !.pc = "return", !.ret = accounts[aid].root_type,
                                !.seen = @ \cup {aid},
                                !.cache = (aid :> accounts[aid].root_type) @@ @]
             ELSE [procs EXCEPT !.seen = @ \cup {aid}, !.stack = <<aid>> \o @,
                                !.arg = accounts[aid].parent]
    /\ UNCHANGED <<accounts, vouchers, lines, nextId, stock, now, last>>

\* walk(aid, seen) from its entry to its return or to the call walk(pid, seen)
WalkCall ==
    /\ procs.pc = "call"
    /\ LET aid == procs.arg
           known == aid \in DOMAIN accounts /\ accounts[aid].business = "acme"
       IN  procs' =
             IF aid \in DOMAIN procs.cache
             THEN [procs EXCEPT !.pc = "return", !.ret = procs.cache[aid]]
             ELSE IF aid \in procs.seen
             THEN [procs EXCEPT !.pc = "return", !.ret = Unresolved,
                                !.cache = (aid :> Unresolved) @@ @]
             ELSE IF ~known
             THEN [procs EXCEPT !.pc = "return", !.ret = Unresolved,
                                !.seen = @ \cup {aid}, !.cache = (aid :> Unresolved) @@ @]
             ELSE IF accounts[aid].parent = NoParent
             THEN [procs EXCEPT !.pc = "return", !.ret = accounts[aid].root_type,
                                !.seen = @ \cup {aid},
                                !.cache = (aid :> accounts[aid].root_type) @@ @]
             ELSE [procs EXCEPT !.seen = @ \cup {aid}, !.stack = <<aid>> \o @,
                                !.arg = accounts[aid].parent]
    /\ UNCHANGED <<accounts, vouchers, lines, nextId, stock, now, last>>

\* parent_rt = walk(pid, seen) has returned: cache[aid] = parent_rt; return
\* parent_rt, or back in the loop when no caller waits
WalkReturn ==
    /\ procs.pc = "return"
    /\ procs' = IF procs.stack = <<>>
                THEN [procs EXCEPT !.pc = "loop"]
                ELSE [procs EXCEPT !.stack = Tail(@),
                                   !.cache = (Head(procs.stack) :> procs.ret) @@ @]
    /\ UNCHANGED <<accounts, vouchers, lines, nextId, stock, now, last>>

\* ---- _resolve_root_types: specification -------------------------------------------------
\* Any parent links over MaxResolve accounts of the business, cycles and
\* links to an account of another business (the row the bulk fetch does not
\* return) included; a parentless account has a root type or none.
MaxResolve == 3
ResolveIds == 1 .. MaxResolve
Foreign == MaxResolve + 1

ResolveRows ==
    {Acct("a", p, TRUE, "EXPENSE") : p \in ResolveIds \cup {Foreign}}
    \cup {Acct("a", NoParent, TRUE, rt) : rt \in {"INCOME", Unresolved}}

RECURSIVE OrdersOf(_)
OrdersOf(S) ==
    IF S = {} THEN {<<>>}
    ELSE UNION {{<<x>> \o p : p \in OrdersOf(S \ {x})} : x \in S}

\* account_ids in the order the loop takes them
ResolveOrders == UNION {OrdersOf(S) : S \in SUBSET ResolveIds}

InitResolve ==
    /\ \E rows \in [ResolveIds -> ResolveRows] :
          accounts = rows @@ (Foreign :> [Acct("z", NoParent, TRUE, "ASSET") EXCEPT !.business = "zenith"])
    /\ vouchers = <<>>
    /\ lines = <<>>
    /\ nextId = 1
    /\ stock = EmptyBag
    /\ now = 1
    /\ last = Result("init", <<>>, <<>>)
    /\ procs = ResolveIdle

NextResolve ==
    \/ \E order \in ResolveOrders : ResolveCall(order)
    \/ ResolveLoop
    \/ WalkCall
    \/ WalkReturn

\* The interpreter runs the call to its end: a step that can be taken is taken
SpecResolve == InitResolve /\ [][NextResolve]_vars /\ WF_procs(NextResolve)

\* ---- properties of the voucher ledger ----------------------------------------
Posted(v) == v \in DOMAIN vouchers /\ vouchers[v].is_posted
HeaderOf(r) == <<r.number, r.voucher_type, r.posting_date, r.narration>>
\* C1: in every reachable state, every posted voucher has the sum of the
\* debits of its lines equal to the sum of their credits.
C1_PostedBalanced ==
    \A v \in DOMAIN vouchers :
        vouchers[v].is_posted => SumDebit(lines[v]) = SumCredit(lines[v])

\* A voucher with two or more lines and a nonzero total has just been posted.
C1_Witness ==
    /\ last.op \in {"post", "voucher_post"} /\ last.res = "ok"
    /\ Posted(last.v)
    /\ BagCardinality(lines[last.v]) >= 2
    /\ SumDebit(lines[last.v]) > 0

\* C2: post() on a voucher that is already posted (called directly or through
\* the voucher_post view) raises nothing and leaves every voucher row, with
\* is_posted, posted_at and posted_by, and every line as it was.
C2_PostIdempotent ==
    [][(last'.op \in {"post", "voucher_post"} /\ Posted(last'.v))
          => (vouchers' = vouchers /\ lines' = lines /\ last'.res = "noop")]_vars

\* post() has just returned on a voucher posted at an earlier time.
C2_Witness ==
    /\ last.op = "post" /\ last.res = "noop"
    /\ Posted(last.v)
    /\ vouchers[last.v].posted_at < now

\* C3: post() on a draft succeeds exactly when the voucher has at least two
\* lines, equal debit and credit totals and no line on a group account; in
\* every other case it fails and the voucher row is unchanged, a draft with
\* posted_at and posted_by unset.
Postable(v) ==
    /\ BagCardinality(lines[v]) >= 2
    /\ SumDebit(lines[v]) = SumCredit(lines[v])
    /\ \A l \in DOMAIN lines[v] : ~accounts[l.account].is_group

C3_PostOutcome ==
    [][(last'.op = "post" /\ last'.v \in DOMAIN vouchers /\ ~vouchers[last'.v].is_posted) =>
          IF Postable(last'.v)
          THEN /\ last'.res = "ok"
               /\ vouchers'[last'.v].is_posted
               /\ vouchers'[last'.v].posted_at = now
          ELSE /\ last'.res = "error"
               /\ vouchers' = vouchers /\ lines' = lines
               /\ ~vouchers'[last'.v].is_posted
               /\ vouchers'[last'.v].posted_at = NoTime
               /\ vouchers'[last'.v].posted_by = NoUser]_vars

\* post() has just failed on a draft whose two or more lines balance: one of
\* them is on an account that has become a group.
C3_Witness ==
    /\ last.op = "post" /\ last.res = "error"
    /\ last.v \in DOMAIN vouchers
    /\ ~vouchers[last.v].is_posted
    /\ BagCardinality(lines[last.v]) >= 2
    /\ SumDebit(lines[last.v]) = SumCredit(lines[last.v])

\* C4: while a posted voucher exists no operation changes its number,
\* voucher_type, posting_date or narration, and none of its lines is added,
\* edited or removed.
C4_PostedImmutable ==
    [][\A v \in DOMAIN vouchers :
          (vouchers[v].is_posted /\ v \in DOMAIN vouchers') =>
             /\ HeaderOf(vouchers'[v]) = HeaderOf(vouchers[v])
             /\ lines'[v] = lines[v]]_vars

\* C5: a voucher that is posted is posted in every later state in which it
\* still exists.
C5_PostedTerminal ==
    [][\A v \in DOMAIN vouchers :
          (vouchers[v].is_posted /\ v \in DOMAIN vouchers') => vouchers'[v].is_posted]_vars

\* fix_pnl_voucher_accounts has just unlocked, corrected and re-posted a
\* posted voucher (post() without a user stamps posted_by = None).
C5_Witness ==
    /\ last.op = "fix_pnl" /\ last.res = "ok"
    /\ \E v \in DOMAIN vouchers :
          vouchers[v].is_posted /\ vouchers[v].posted_by = NoUser

\* C6: posted_at and posted_by are written once: when two voucher_post
\* requests hold separately loaded copies of one voucher, no step changes the
\* posted_at or posted_by of a voucher that is already posted.
C6_StampedOnce ==
    [][\A v \in DOMAIN vouchers :
          vouchers[v].is_posted =>
             /\ vouchers'[v].posted_at = vouchers[v].posted_at
             /\ vouchers'[v].posted_by = vouchers[v].posted_by]_vars

\* C7: every stored line has debit >= 0, credit >= 0 and exactly one of the
\* two nonzero, and a voucher_create or voucher_edit that submits a line with
\* both nonzero, both zero or a negative amount fails and changes no stored
\* voucher and no stored line.
AmountsOk(l) ==
    /\ l.debit >= 0 /\ l.credit >= 0
    /\ (l.debit = 0) # (l.credit = 0)

C8_PostedLinesOnLedgers ==
    \A v \in DOMAIN vouchers :
        vouchers[v].is_posted => \A l \in DOMAIN lines[v] : ~accounts[l.account].is_group

\* ---- properties of the stock ledger ---------------------------------------------
\* C9: for every item and godown, qty_in minus qty_out summed over the posted
\* stock ledger entries is never negative.
C9_NonNegativeStock ==
    \A i \in Items, g \in Godowns : _stock_balance(i, g) >= 0

\* The quantity of an item a voucher asks for, over all of its rows
RECURSIVE RowsQty(_, _)
RowsQty(rows, item) ==
    IF rows = <<>> THEN 0
    ELSE (IF Head(rows).item = item THEN Head(rows).qty ELSE 0) + RowsQty(Tail(rows), item)

\* C10: a sales voucher whose rows ask for more of an item than its posted
\* balance in the godown, and a stock-journal transfer of more than the
\* balance in the source godown, are rejected and leave the vouchers, the
\* voucher lines and the stock ledger entries as they were.
C10_OverdrawRejected ==
    [][/\ \A g \in Godowns, rows \in RowInputs :
             (/\ \E i \in Items : RowsQty(rows, i) > _stock_balance(i, g)
              /\ sales_voucher(1, "", Cash, Sales, g, rows, User1))
                => (last'.res # "ok" /\ UNCHANGED <<vouchers, lines, stock>>)
       /\ \A i \in Items, f \in Godowns, t \in Godowns, q \in StockQtys, r \in StockRates :
             (q > _stock_balance(i, f) /\ stock_journal(1, "", i, f, t, q, r))
                => (last'.res # "ok" /\ UNCHANGED <<vouchers, lines, stock>>)]_vars

\* C11: creating an inventory purchase or sales voucher is all-or-nothing.
\* After an attempt either the new voucher is stored posted with two balanced
\* lines and one posted stock entry per item row, every other record being as
\* it was, or no voucher, line or stock entry has changed; and in every state
\* each stock entry that names a voucher names one that exists and is posted.
EntriesOf(st, v) == [e \in {x \in DOMAIN st : x.voucher_id = v} |-> st[e]]

InventoryOutcome(rows) ==
    \/ /\ last'.res = "ok"
       /\ last'.v \notin DOMAIN vouchers
       /\ DOMAIN vouchers' = DOMAIN vouchers \cup {last'.v}
       /\ \A v \in DOMAIN vouchers : vouchers'[v] = vouchers[v] /\ lines'[v] = lines[v]
       /\ vouchers'[last'.v].is_posted
       /\ BagCardinality(lines'[last'.v]) = 2
       /\ SumDebit(lines'[last'.v]) = SumCredit(lines'[last'.v])
       /\ BagCardinality(EntriesOf(stock', last'.v)) = Len(rows)
       /\ \A e \in DOMAIN EntriesOf(stock', last'.v) : e.is_posted
       /\ stock' (-) EntriesOf(stock', last'.v) = stock
    \/ /\ last'.res # "ok"
       /\ UNCHANGED <<vouchers, lines, stock>>

C11_AllOrNothing ==
    /\ [](\A e \in DOMAIN stock :
             e.voucher_id # NoVoucher => Posted(e.voucher_id))
    /\ [][\A g \in Godowns, rows \in RowInputs :
             (\/ purchase_voucher_create(1, "", Cash, Purchase, g, rows, User1)
              \/ sales_voucher(1, "", Cash, Sales, g, rows, User1))
                => InventoryOutcome(rows)]_vars

\* A purchase of two rows at rate 0 has just failed (its lines would carry a
\* zero total) while an earlier purchase voucher stands posted with its stock
\* entries.
C11_Witness ==
    /\ last.op = "purchase_voucher_create" /\ last.res = "error"
    /\ \E v \in DOMAIN vouchers :
          /\ vouchers[v].is_posted
          /\ BagCardinality(lines[v]) = 2
          /\ BagCardinality(EntriesOf(stock, v)) = 2

\* C12: a stock journal that goes through adds exactly two posted entries for
\* one item, qty_out = q at the source godown and qty_in = q at a different
\* godown, with the same posting_date, rate, amount and narration, and one that
\* is refused adds nothing; in every state the STOCK_JOURNAL outward entries
\* and the inward entries that match them are equal in number.
IsLegOut(e) == e.voucher_type = "STOCK_JOURNAL" /\ e.qty_out > 0 /\ e.qty_in = 0
IsLegIn(e) == e.voucher_type = "STOCK_JOURNAL" /\ e.qty_in > 0 /\ e.qty_out = 0

Paired(o, i) ==
    /\ IsLegOut(o) /\ IsLegIn(i)
    /\ o.is_posted /\ i.is_posted
    /\ i.item = o.item /\ i.qty_in = o.qty_out
    /\ i.godown # o.godown
    /\ i.posting_date = o.posting_date /\ i.rate = o.rate
    /\ i.amount = o.amount /\ i.narration = o.narration

JournalLegs(st) == [e \in {x \in DOMAIN st : x.voucher_type = "STOCK_JOURNAL"} |-> st[e]]

C12_JournalPairs ==
    /\ [](LET legs == JournalLegs(stock)
          IN  /\ \A e \in DOMAIN legs : IsLegOut(e) \/ IsLegIn(e)
              /\ \A o \in {e \in DOMAIN legs : IsLegOut(e)} :
                    BagCardinality([i \in {x \in DOMAIN legs : Paired(o, x)} |-> legs[i]])
                       = BagCardinality([x \in {y \in DOMAIN legs :
                                                  IsLegOut(y) /\ \E i \in DOMAIN legs :
                                                      Paired(o, i) /\ Paired(y, i)} |-> legs[x]])
              /\ \A i \in {e \in DOMAIN legs : IsLegIn(e)} :
                    \E o \in DOMAIN legs : Paired(o, i))
    /\ [][last'.op = "stock_journal" =>
             IF last'.res = "ok"
             THEN \E o, i \in DOMAIN stock' :
                     /\ Paired(o, i)
                     /\ stock' = stock (+) One(o) (+) One(i)
             ELSE stock' = stock]_vars

\* A transfer has just gone through: both legs are stored, next to the
\* inward entry of the purchase that supplied the source godown.
C12_Witness ==
    /\ last.op = "stock_journal" /\ last.res = "ok"
    /\ \E o, i \in DOMAIN stock : Paired(o, i)
    /\ \E e \in DOMAIN stock : e.voucher_type = "PURCHASE"

\* C13: when two sales or transfers out of one godown are served at the same
\* time, under every interleaving of their steps the posted balance of every
\* item in every godown that has entries stays at or above zero.
C13_ConcurrentSalesSafe ==
    \A e \in DOMAIN stock : _stock_balance(e.item, e.godown) >= 0

\* C14: every stored voucher, draft or posted, can be deleted, and the delete
\* removes the voucher, all its lines and every stock entry that carries its
\* id: afterwards no stock entry names the deleted voucher, and the other
\* vouchers, their lines and the other stock entries are as they were.
C14_DeleteCascade ==
    /\ [](\A v \in DOMAIN vouchers : ENABLED voucher_delete(v))
    /\ [][last'.op = "voucher_delete" =>
             /\ last'.res = "ok"
             /\ last'.v \in DOMAIN vouchers
             /\ vouchers' = Without(vouchers, last'.v)
             /\ lines' = Without(lines, last'.v)
             /\ \A e \in DOMAIN stock' : e.voucher_id # last'.v
             /\ \A e \in DOMAIN stock :
                   e.voucher_id # last'.v => (e \in DOMAIN stock' /\ stock'[e] = stock[e])
             /\ DOMAIN stock' \subseteq DOMAIN stock]_vars

\* A posted purchase voucher has just been deleted with its inward entries:
\* the outward entries of the sales voucher that drew on them are still there.
C14_Witness ==
    /\ last.op = "voucher_delete" /\ last.res = "ok"
    /\ \E e \in DOMAIN stock : e.voucher_type = "SALES" /\ Posted(e.voucher_id)
    /\ \A e \in DOMAIN stock : e.voucher_type # "PURCHASE"

\* ---- properties of the account hierarchy -------------------------------------------
\* C15: after any sequence of group and ledger creations and alterations,
\* every account that has a parent has a parent with is_group true.
C15_ParentIsGroup ==
    \A a \in DOMAIN accounts :
        accounts[a].parent # NoParent => accounts[accounts[a].parent].is_group

\* C16: after any sequence of group and ledger creations and alterations,
\* moving a group that has children included, every stored account belongs to
\* a business and every account that has a parent belongs to the business of
\* its parent.
C16_SameBusiness ==
    \A a \in DOMAIN accounts :
        /\ accounts[a].business \in Businesses
        /\ accounts[a].parent # NoParent =>
              accounts[a].business = accounts[accounts[a].parent].business

\* Cash-in-Hand has just been moved under Expenses with its ledger Cash below
\* it, while the other business has a group that the request could have named.
C16_Witness ==
    /\ last.op = "group_alter" /\ last.res = "ok" /\ last.v = CashInHand
    /\ accounts[CashInHand].parent = Expenses
    /\ accounts[Cash].parent = CashInHand
    /\ \E a \in DOMAIN accounts : accounts[a].business = "zenith" /\ accounts[a].is_group

\* C17 as stated: no step gives a parent to a stored account whose parent is
\* null.
C17_ParentlessLocked ==
    [][\A a \in DOMAIN accounts :
          accounts[a].parent = NoParent => accounts'[a].parent = NoParent]_vars

\* C17, for root groups: every alteration sent for a stored account whose
\* parent is null and whose is_group is true, an attempt to give it a parent
\* included, fails and leaves every stored account as it was; such an account
\* never gets a parent.
C17_RootGroupLocked ==
    [][/\ (/\ last'.op \in {"group_alter", "ledger_alter"}
           /\ last'.v \in DOMAIN accounts
           /\ accounts[last'.v].parent = NoParent
           /\ accounts[last'.v].is_group)
             => (last'.res = "error" /\ accounts' = accounts)
       /\ \A a \in DOMAIN accounts :
             (accounts[a].parent = NoParent /\ accounts[a].is_group)
                => accounts'[a] = accounts[a]]_vars

\* group_alter has just been refused for the root group Assets, and the
\* request that puts Assets under the group Expenses is refused in this state.
C17_Witness ==
    /\ last.op = "group_alter" /\ last.res = "error" /\ last.v = Assets
    /\ accounts[Assets].parent = NoParent /\ accounts[Assets].is_group
    /\ Expenses \in ParentChoices(accounts[Assets].business, TRUE)
    /\ ENABLED (group_alter(Assets, Expenses, FALSE, "", FALSE) /\ last'.res = "error")
    /\ ~ENABLED (group_alter(Assets, Expenses, FALSE, "", FALSE) /\ last'.res = "ok")

\* C18: in every state every account with is_group false and
\* is_primary_ledger false has a parent, and no step leaves such an account
\* without one.
PlainLedger(a) == ~a.is_group /\ ~a.is_primary_ledger

C18_LedgersHaveParents ==
    /\ [](\A a \in DOMAIN accounts :
             PlainLedger(accounts[a]) => accounts[a].parent # NoParent)
    /\ [][\A a \in DOMAIN accounts :
             PlainLedger(accounts[a]) => accounts'[a].parent # NoParent]_vars

\* ledger_alter has just been refused for the ledger Cash, and the request
\* that removes its parent is refused in this state; a ledger created with
\* ledger_create is stored next to it.
C18_Witness ==
    /\ last.op = "ledger_alter" /\ last.res = "error" /\ last.v = Cash
    /\ PlainLedger(accounts[Cash])
    /\ ENABLED (ledger_alter(Cash, NoParent, "LIABILITY", FALSE) /\ last'.res = "error")
    /\ ~ENABLED (ledger_alter(Cash, NoParent, "LIABILITY", FALSE) /\ last'.res = "ok")
    /\ \E a \in Created : PlainLedger(accounts[a])

\* C19: after any sequence of group and ledger creations and alterations,
\* re-parenting a group that has descendants included, every account that has
\* a parent carries the root_type and the report_type of the account at the
\* top of its parent chain.
RECURSIVE TopOf(_, _)
TopOf(a, fuel) ==
    IF accounts[a].parent = NoParent \/ fuel = 0 THEN a
    ELSE TopOf(accounts[a].parent, fuel - 1)

C19_RootTypeInherited ==
    \A a \in DOMAIN accounts :
        accounts[a].parent # NoParent =>
            LET top == TopOf(a, Cardinality(DOMAIN accounts))
            IN  accounts[top].parent = NoParent =>
                   /\ accounts[a].root_type = accounts[top].root_type
                   /\ accounts[a].report_type = accounts[top].report_type

\* ---- properties of the stock valuation ----------------------------------------------
\* C20: closing_stock_value(d, godown) is the sum over the items of 0 when the
\* item's closing quantity (qty_in minus qty_out over the posted entries dated
\* up to d, of the godown when one is given) is not positive, and otherwise of
\* closing quantity times (amount of the receipts divided by quantity of the
\* receipts) rounded to two decimals; unposted entries, entries dated after d
\* and the rate and amount of outward entries do not change the result.
Counts(e, d, g) == e.is_posted /\ e.posting_date <= d /\ (g = NoGodown \/ e.godown = g)

RECURSIVE Total(_, _, _)
Total(st, S, field) ==
    IF S = {} THEN 0
    ELSE LET e == CHOOSE x \in S : TRUE
         IN  st[e] * e[field] + Total(st, S \ {e}, field)

ItemValue(st, i, d, g) ==
    LET rows == {e \in DOMAIN st : e.item = i /\ Counts(e, d, g)}
        receipts == {e \in rows : e.qty_in > 0}
        closing_qty == Total(st, rows, "qty_in") - Total(st, rows, "qty_out")
    IN  IF closing_qty <= 0 \/ Total(st, receipts, "qty_in") = 0 THEN 0
        ELSE Quantize(closing_qty * Total(st, receipts, "amount"),
                      Total(st, receipts, "qty_in"))

RECURSIVE StockValue(_, _, _, _)
StockValue(st, items, d, g) ==
    IF items = {} THEN 0
    ELSE LET i == CHOOSE x \in items : TRUE
         IN  ItemValue(st, i, d, g) + StockValue(st, items \ {i}, d, g)

\* The table with every outward entry given another rate and amount
Repriced(st, rate) ==
    LET New(e) == IF e.qty_out > 0
                  THEN [e EXCEPT !.rate = rate, !.amount = _entry_amount(0, e.qty_out, rate)]
                  ELSE e
    IN  SetToBag({New(e) : e \in DOMAIN st})

C21_OpeningIsPreviousClosing ==
    /\ \A d \in ValDates, g \in GodownArgs :
           /\ closing_stock_value(stock, d, g) = opening_stock_value(stock, d + 1, g)
           /\ (last.op = "opening_stock_value" /\ last.v = <<d + 1, g>>)
                  => last.res = closing_stock_value(stock, d, g)
    /\ \A g \in GodownArgs :
           /\ opening_stock_value(stock, NoDate, g) = 0
           /\ (last.op = "opening_stock_value" /\ last.v = <<NoDate, g>>) => last.res = 0

\* An opening value was asked for a period starting on day 2 over a table
\* whose value changes on day 2
C21_Witness ==
    /\ last.op = "opening_stock_value"
    /\ last.v[1] = 2
    /\ last.res > 0
    /\ closing_stock_value(stock, 2, last.v[2]) # last.res

\* C22: every result of compute_profit_and_loss has opening_stock +
\* purchase_total + indirect_expense_total + net_profit equal to sales_total +
\* closing_stock (total_debit = total_credit), with cogs = opening_stock +
\* purchase_total - closing_stock, gross_profit = sales_total - cogs and
\* net_profit = gross_profit - indirect_expense_total + other_income_total.
C22_PnLIdentity ==
    last.op = "compute_profit_and_loss" =>
        LET r == last.res
        IN  /\ r.opening_stock_value + r.purchase_total + r.indirect_expense_total + r.net_profit
                  = r.sales_total + r.closing_stock_value
            /\ r.total_debit = r.total_credit
            /\ r.cogs = r.opening_stock_value + r.purchase_total - r.closing_stock_value
            /\ r.gross_profit = r.sales_total - r.cogs
            /\ r.net_profit = r.gross_profit - r.indirect_expense_total + r.other_income_total

\* C23: when every voucher of the business is posted and balanced,
\* compute_balance_sheet returns total_assets equal to total_liabilities, the
\* Profit & Loss A/c row included in total_liabilities.
C23_BalanceSheetBalances ==
    (/\ last.op = "compute_balance_sheet"
     /\ \A v \in DOMAIN vouchers :
            vouchers[v].is_posted /\ SumDebit(lines[v]) = SumCredit(lines[v]))
        => last.res.total_assets = last.res.total_liabilities

\* The lines of the posted vouchers dated up to end_date, in one bag
RECURSIVE CountedLines(_, _)
CountedLines(V, end_date) ==
    IF V = {} THEN EmptyBag
    ELSE LET v == CHOOSE x \in V : TRUE
             rest == CountedLines(V \ {v}, end_date)
         IN  IF vouchers[v].is_posted /\ (end_date = NoDate \/ vouchers[v].posting_date <= end_date)
             THEN lines[v] (+) rest
             ELSE rest

OpeningNet(a) ==
    IF accounts[a].opening_balance_type = "DR" THEN accounts[a].opening_balance
    ELSE 0 - accounts[a].opening_balance

\* C24: the closing balance of every ledger (non-group) account is its
\* opening_net (opening_balance positive for DR, negative for CR) plus the
\* debits minus the credits of its lines in posted vouchers dated up to
\* end_date; lines of draft vouchers and of later vouchers add nothing.
C24_LedgerClosingBalance ==
    last.op = "_ledger_closing_balances" =>
        LET end_date == last.v[1]
            counted == CountedLines(DOMAIN vouchers, end_date)
        IN  /\ DOMAIN last.res = {a \in DOMAIN accounts : ~accounts[a].is_group}
            /\ \A a \in DOMAIN last.res :
                   LET OnA(l) == l.account = a
                       mine == Filter(counted, OnA)
                   IN  last.res[a] = OpeningNet(a) + SumDebit(mine) - SumCredit(mine)

\* Balances as of day 1 with a posted voucher of day 1 on Cash next to a draft
\* or a voucher of day 2 on Cash
C24_Witness ==
    /\ last.op = "_ledger_closing_balances"
    /\ last.v = <<1>>
    /\ DOMAIN vouchers = {1, 2}
    /\ vouchers[1].is_posted /\ vouchers[1].posting_date = 1
    /\ ~vouchers[2].is_posted \/ vouchers[2].posting_date = 2
    /\ \A v \in {1, 2} : \E l \in DOMAIN lines[v] : l.account = Cash
    /\ last.res[Cash] # OpeningNet(Cash)
    /\ last.res[SundryCreditors] = 0 - 100

PnLLists == {"sales", "purchases", "other_income", "indirect_expense"}
ListedIn(r, b) == {row[1] : row \in r[b]}

\* C25: in a result of compute_profit_and_loss a ledger whose parent chain
\* ends in an ASSET or LIABILITY root is in none of the four lists (the name
\* hints serve only accounts without a resolvable root type), and no ledger
\* is in two lists.
C25_BalanceSheetLedgersExcluded ==
    last.op = "compute_profit_and_loss" =>
        /\ \A a \in Ledgers :
               accounts[TopOf(a, MaxAccounts)].root_type \in {"ASSET", "LIABILITY"} =>
                   \A b \in PnLLists : accounts[a].name \notin ListedIn(last.res, b)
        /\ \A b1 \in PnLLists : \A b2 \in PnLLists \ {b1} :
               ListedIn(last.res, b1) \cap ListedIn(last.res, b2) = {}

\* Following parent links from a for at most fuel steps ends at an account
\* without a parent
RECURSIVE ReachesRoot(_, _)
ReachesRoot(a, fuel) ==
    IF accounts[a].parent = NoParent THEN TRUE
    ELSE IF fuel = 0 THEN FALSE
    ELSE ReachesRoot(accounts[a].parent, fuel - 1)

\* C26: after any sequence of account create and alter operations the parent
\* relation is acyclic: the parent links of every account lead to an account
\* with a null parent (an alter that would make an account its own ancestor
\* is rejected).
C26_ParentsAcyclic ==
    \A a \in DOMAIN accounts : ReachesRoot(a, Cardinality(DOMAIN accounts))

\* The account the parent links of a lead to after fuel steps, 0 when they
\* leave the accounts of the business
RECURSIVE ChainEnd(_, _)
ChainEnd(a, fuel) ==
    IF ~(a \in DOMAIN accounts /\ accounts[a].business = "acme") THEN 0
    ELSE IF accounts[a].parent = NoParent \/ fuel = 0 THEN a
    ELSE ChainEnd(accounts[a].parent, fuel - 1)

\* a is on a cycle of parent links or its links lead into one
IntoCycle(a) ==
    LET e == ChainEnd(a, 2 * MaxResolve) IN e # 0 /\ accounts[e].parent # NoParent

ResolveDone == procs.pc = "done"

\* The returned cache: every id asked for has an entry, no root type for an
\* account on or leading into a cycle or leaving the business, the root type
\* of the parentless account at the end of the chain otherwise; and it is the
\* value of the function computed in one piece.
ResolveResult ==
    LET cache == procs.cache
        ids == {procs.ids[k] : k \in DOMAIN procs.ids}
    IN  /\ ids \subseteq DOMAIN cache
        /\ \A a \in DOMAIN cache :
               LET e == ChainEnd(a, 2 * MaxResolve)
               IN  cache[a] = IF e = 0 \/ IntoCycle(a) THEN Unresolved ELSE accounts[e].root_type
        /\ cache = _resolve_root_types("acme", procs.ids)
        /\ last.res = cache

C28_NextNumberFree == NumberFree(_next_voucher_number)

\* C29: a stock-journal transfer of an item between two godowns leaves the
\* closing stock value of the whole business (no godown filter) as of any
\* date on or after the transfer unchanged, whatever rate was entered.
C29_TransferKeepsValue ==
    [][(last'.op = "stock_journal" /\ last'.res = "ok" /\ stock' # stock) =>
          \A d \in ValDates :
              closing_stock_value(stock', d, NoGodown) = closing_stock_value(stock, d, NoGodown)]_vars

\* C30: under every interleaving of a post() call with a concurrent insert or
\* edit of a line on the same draft voucher, no voucher is stored posted with
\* unequal debit and credit totals: a line write that lands after the balance
\* check of post() is rejected or prevents the post.
C30_PostRaceBalanced ==
    \A v \in DOMAIN vouchers :
        vouchers[v].is_posted => _totals(lines[v])[1] = _totals(lines[v])[2]
====
